---- MODULE Spec2Model ----
(***************************************************************************)
(* A model of the request pipeline of erlc.ts (PRCClient.makeRequest), of  *)
(* the endpoint methods that route through it, of the error model          *)
(* (PRCAPIError) and of the memory cache the pipeline reads and writes.    *)
(*                                                                         *)
(* Optional values (TypeScript `x?: T`, `undefined`) are sets: {} is       *)
(* undefined, {v} is the value v.  The decoded data `null` is Null.        *)
(* Time is in milliseconds and advances in steps of TickMs.                *)
(*                                                                         *)
(* client is the PRCClient instance: whether it has been constructed, the  *)
(* backend of its cache and whether that backend works.  last is the       *)
(* outcome of the last operation that is not an endpoint call (the         *)
(* constructor, PRCAPIError.fromResponse, the cache accessors), until the  *)
(* caller has taken it.                                                    *)
(***************************************************************************)
EXTENDS Naturals, FiniteSets, Sequences, TLC

VARIABLES cfg, env, now, cache, calls, started, origin, client, last

vars == <<cfg, env, now, cache, calls, started, origin, client, last>>

----------------------------------------------------------------------------
(* Bounds of the model *)

MaxTicks == 2
MaxCalls == 3

(* Program constants *)

MAX_RETRIES == 3
RATE_LIMITED == 4001
SERVER_OFFLINE == 3002
UNKNOWN == 0
ROBLOX_ERROR == 1001
INTERNAL_ERROR == 1002
NO_SERVER_KEY == 2000
INVALID_SERVER_KEY_FORMAT == 2001
INVALID_SERVER_KEY == 2002
INVALID_GLOBAL_KEY == 2003
BANNED_SERVER_KEY == 2004
INVALID_COMMAND == 3001
RESTRICTED_COMMAND == 4002
PROHIBITED_MESSAGE == 4003
RESTRICTED_RESOURCE == 9998
OUTDATED_MODULE == 9999

(* enum ErrorCode *)
ErrorCode ==
    {UNKNOWN, ROBLOX_ERROR, INTERNAL_ERROR, NO_SERVER_KEY, INVALID_SERVER_KEY_FORMAT,
     INVALID_SERVER_KEY, INVALID_GLOBAL_KEY, BANNED_SERVER_KEY, INVALID_COMMAND,
     SERVER_OFFLINE, RATE_LIMITED, RESTRICTED_COMMAND, PROHIBITED_MESSAGE,
     RESTRICTED_RESOURCE, OUTDATED_MODULE}
DefaultMaxAge == 30000
MsPerSecond == 1000

(* Granularity of the clock and the inputs drawn by the environment *)

TickMs == MsPerSecond
None == {}
Some(x) == {x}
Val(o) == CHOOSE x \in o : TRUE

Null == "null"
Data == {"d1", "d2"}
Slots == {1, 2}

ConfigMaxAges == {None, Some(TickMs)}
CallMaxAges == {None, Some(2 * TickMs)}
CacheOpts == {None, Some(TRUE), Some(FALSE)}
RetryAfters == {None, Some(0), Some(1)}
BodyCodes ==
    {None, Some(RATE_LIMITED), Some(SERVER_OFFLINE), Some(ROBLOX_ERROR), Some(INTERNAL_ERROR)}
BodyErrorCodes == {None, Some(RATE_LIMITED)}

----------------------------------------------------------------------------
(* The endpoint surface: verb, path and call-site cacheability policy *)

DefaultCached ==
    {"getServerStatus", "getPlayers", "getQueue", "getVehicles", "getBans", "getStaff"}

LogEndpoints == {"getJoinLogs", "getKillLogs", "getCommandLogs", "getModCalls"}

EndpointNames == DefaultCached \cup LogEndpoints \cup {"executeCommand"}

Method(ep) == IF ep = "executeCommand" THEN "POST" ELSE "GET"

Path(ep) ==
    CASE ep = "getServerStatus" -> "/server"
      [] ep = "getPlayers"      -> "/server/players"
      [] ep = "getQueue"        -> "/server/queue"
      [] ep = "getVehicles"     -> "/server/vehicles"
      [] ep = "getBans"         -> "/server/bans"
      [] ep = "getStaff"        -> "/server/staff"
      [] ep = "getJoinLogs"     -> "/server/joinlogs"
      [] ep = "getKillLogs"     -> "/server/killlogs"
      [] ep = "getCommandLogs"  -> "/server/commandlogs"
      [] ep = "getModCalls"     -> "/server/modcalls"
      [] ep = "executeCommand"  -> "/server/command"

Paths == {Path(ep) : ep \in EndpointNames}

(* MethodOptions: { cache?: boolean, cacheMaxAge?: number } *)
MethodOptions == [cache : CacheOpts, cacheMaxAge : CallMaxAges]

NoOptions == [cache |-> None, cacheMaxAge |-> None]

(* JavaScript truthiness of an optional number: !!x *)
Truthy(o) == o # None /\ o # Some(0)

(* Variant: || in place of && *)
LogShouldCache_Or(opts) == opts.cache = Some(TRUE) \/ Truthy(opts.cacheMaxAge)

(* const shouldCache = options?.cache === true && !!options?.cacheMaxAge *)
LogShouldCache(opts) == opts.cache = Some(TRUE) /\ Truthy(opts.cacheMaxAge)

(* The `cacheable` argument each endpoint method passes to makeRequest *)
CacheableArg(ep, opts) ==
    IF ep \in DefaultCached THEN TRUE
    ELSE IF ep \in LogEndpoints THEN LogShouldCache(opts)
    ELSE FALSE

(* The options an endpoint method forwards: executeCommand takes none *)
ForwardedOptions(ep, opts) == IF ep = "executeCommand" THEN NoOptions ELSE opts

(* Variant: the verb is not looked at *)
ShouldCache_AnyMethod(method, cacheable, cacheOverride) ==
    IF cacheOverride # None THEN Val(cacheOverride) ELSE cacheable

(* Variant: the per-call override is not looked at *)
ShouldCache_IgnoreOverride(method, cacheable, cacheOverride) ==
    method = "GET" /\ cacheable

(* method === 'GET' && (cacheOverride !== undefined ? cacheOverride : cacheable) *)
ShouldCache(method, cacheable, cacheOverride) ==
    method = "GET" /\ (IF cacheOverride # None THEN Val(cacheOverride) ELSE cacheable)

----------------------------------------------------------------------------
(* Server responses as the pipeline sees them *)

(* Inbound error shape: { code?, errorCode?, retry_after? } *)
ErrorBodies == [code : BodyCodes, errorCode : BodyErrorCodes, retry_after : RetryAfters]

EmptyBody == [code |-> None, errorCode |-> None, retry_after |-> None]

(* The text of a response whose content-type is not JSON *)
PlainText == "OK"

OkResponses ==
    {[ok |-> TRUE, json |-> TRUE, parses |-> TRUE, data |-> d, body |-> EmptyBody] : d \in Data}
    \cup {[ok |-> TRUE, json |-> FALSE, parses |-> TRUE, data |-> PlainText, body |-> EmptyBody]}

ErrResponses ==
    {[ok |-> FALSE, json |-> TRUE, parses |-> TRUE, data |-> Null, body |-> b] : b \in ErrorBodies}
    \cup {[ok |-> FALSE, json |-> FALSE, parses |-> FALSE, data |-> Null, body |-> EmptyBody]}

Responses == OkResponses \cup ErrResponses

NoResponse == [ok |-> FALSE, json |-> FALSE, parses |-> FALSE, data |-> "none", body |-> EmptyBody]

(* let errorBody = {}; try { errorBody = await response.json() } catch { } *)
ParseErrorBody(r) == IF r.parses THEN r.body ELSE EmptyBody

(* Variant: the content-type is not looked at *)
ParseResponseData_AnyType(r) == r.data

(* Variant: the body is not decoded *)
ParseResponseData_AlwaysNull(r) == Null

(* contentType?.includes('application/json') ? await response.json() : null *)
ParseResponseData(r) == IF r.json THEN r.data ELSE Null

----------------------------------------------------------------------------
(* The error model *)

(* const code = body?.code || 0; const retryAfter = body?.retry_after *)
FromResponse(body) ==
    [code       |-> IF body.code # None /\ Val(body.code) # 0 THEN Val(body.code) ELSE UNKNOWN,
     retryAfter |-> body.retry_after]

IsRateLimit(err) == err.code = RATE_LIMITED

IsServerOffline(err) == err.code = SERVER_OFFLINE

IsAuthError(err) ==
    err.code \in {NO_SERVER_KEY, INVALID_SERVER_KEY_FORMAT, INVALID_SERVER_KEY,
                  INVALID_GLOBAL_KEY, BANNED_SERVER_KEY}

(* Variant: a server that is offline is not worth a retry *)
IsRetryable_NoOffline(err) == err.code \in {ROBLOX_ERROR, INTERNAL_ERROR, RATE_LIMITED}

IsRetryable(err) ==
    err.code \in {ROBLOX_ERROR, INTERNAL_ERROR, RATE_LIMITED, SERVER_OFFLINE}

(* The status line of a failed response *)
FailedStatuses ==
    {[status |-> 403, statusText |-> "Forbidden"],
     [status |-> 500, statusText |-> "Internal Server Error"]}

(* Parsed error bodies as fromResponse reads them: { code?, message?, retry_after? } *)
BodyMessages == {None, Some(""), Some("Server is offline")}

PRCErrorBodies ==
    [code : {None} \cup {Some(c) : c \in ErrorCode}, message : BodyMessages,
     retry_after : RetryAfters]

(* let errorBody = {} *)
EmptyErrorBody == [code |-> None, message |-> None, retry_after |-> None]

(* `HTTP ${response.status}: ${response.statusText}` *)
HttpMessage(response) ==
    "HTTP " \o ToString(response.status) \o ": " \o response.statusText

(* Variant: the message of the body is not looked at *)
ErrorMessage_Synthesized(response, body) == HttpMessage(response)

(* const message = body?.message || `HTTP ...` *)
ErrorMessage(response, body) ==
    IF body.message # None /\ Val(body.message) # ""
    THEN Val(body.message)
    ELSE HttpMessage(response)

(* new PRCAPIError({ code, message, retryAfter }) *)
PRCAPIError(response, body) ==
    [code       |-> FromResponse(body).code,
     message    |-> ErrorMessage(response, body),
     retryAfter |-> FromResponse(body).retryAfter]

(* errorBody.code === 4001 || errorBody.errorCode === 4001 *)
IsRateLimitedBody(body) ==
    body.code = Some(RATE_LIMITED) \/ body.errorCode = Some(RATE_LIMITED)

(* Variant: retryCount <= maxRetries *)
ShouldRetry_OffByOne(body, retryCount, maxRetries) ==
    IsRateLimitedBody(body) /\ retryCount <= maxRetries

(* Variant: the retry budget is not looked at *)
ShouldRetry_Unbounded(body, retryCount, maxRetries) ==
    IsRateLimitedBody(body)

(* The value shouldRetry resolves to *)
ShouldRetry(body, retryCount, maxRetries) ==
    IsRateLimitedBody(body) /\ retryCount < maxRetries

(* Variant: the seconds are passed to setTimeout as milliseconds *)
WaitForRetryAfter_NoScale(retryAfter) == IF retryAfter > 0 THEN retryAfter ELSE 0

(* RateLimiter.waitForRetryAfter: setTimeout(resolve, retryAfter * 1000) *)
WaitForRetryAfter(retryAfter) == IF retryAfter > 0 THEN retryAfter * MsPerSecond ELSE 0

(* The time shouldRetry suspends the call for before it resolves *)
RetryWaitMs(body) ==
    IF body.retry_after # None /\ Val(body.retry_after) > 0
    THEN WaitForRetryAfter(Val(body.retry_after))
    ELSE 0

----------------------------------------------------------------------------
(* The cache store, memory backend: key -> { value, storedAt, maxAge } *)

EmptyCache == [p \in Paths |-> None]

Entry(value, storedAt, maxAge) == [value |-> value, storedAt |-> storedAt, maxAge |-> maxAge]

(* The max-age the cache was constructed with: new Cache(options.cacheMaxAge) *)
CacheDefaultMaxAge(config) ==
    IF config.cacheMaxAge # None THEN Val(config.cacheMaxAge) ELSE DefaultMaxAge

(* Variant: an entry stays readable for one more second *)
Readable_Late(e, t) == t - e.storedAt <= e.maxAge + MsPerSecond

(* An entry is readable only while now - storedAt <= maxAge *)
Readable(e, t) == t - e.storedAt <= e.maxAge

(* The networked backend after a connection or operational failure: the   *)
(* cache is inert, every get is a miss and every set does nothing         *)
Inert == client.backend = "redis" /\ ~client.connected

(* The time-to-live of the networked backend: whole seconds, rounded up *)
CeilSeconds(ms) == (ms + (MsPerSecond - 1)) \div MsPerSecond

StoredMaxAge(ms) == IF client.backend = "redis" THEN CeilSeconds(ms) * MsPerSecond ELSE ms

(* Variant: the failure of the backend is not looked at *)
CacheGet_IgnoreFailure(c, key, t) ==
    IF c[key] # None /\ Readable(Val(c[key]), t) THEN Val(c[key]).value ELSE Null

(* get(key): the value, or null when absent or past expiry *)
CacheGet(c, key, t) ==
    IF Inert THEN Null
    ELSE IF c[key] # None /\ Readable(Val(c[key]), t) THEN Val(c[key]).value ELSE Null

(* get(key) removes lazily an entry read past its expiry *)
CacheAfterGet(c, key, t) ==
    IF ~Inert /\ c[key] # None /\ ~Readable(Val(c[key]), t) THEN [c EXCEPT ![key] = None] ELSE c

(* set(key, value, maxAge?): a new write replaces the old entry *)
CacheSet(c, key, value, maxAge, t, config) ==
    IF Inert THEN c
    ELSE [c EXCEPT ![key] =
            Some(Entry(value, t, StoredMaxAge(IF maxAge # None THEN Val(maxAge)
                                              ELSE CacheDefaultMaxAge(config))))]

(* clear() *)
CacheClear(c) == IF Inert THEN c ELSE EmptyCache

(* size(): the number of entries stored *)
CacheSize(c) == IF Inert THEN 0 ELSE Cardinality({key \in Paths : c[key] # None})

(* The debug accessors of the cache are for the memory backend only: on the *)
(* networked backend they throw                                             *)
AccessorThrows == client.backend = "redis"

(* getRawEntry(key) and getAllKeys() of the memory backend *)
CacheGetRawEntry(c, key) == c[key]

CacheGetAllKeys(c) == {key \in Paths : c[key] # None}

(* The scheduled expiry action may run once maxAge has elapsed *)
ExpiryDue(e, t) == t - e.storedAt >= e.maxAge

(* Variant: the test of this.cache is inverted *)
GetCachedData_Inverted(config, c, key, t) ==
    IF ~config.cacheEnabled THEN CacheGet(c, key, t) ELSE Null

(* PRCClient.getCachedData: this.cache ? await this.cache.get(key) : null *)
GetCachedData(config, c, key, t) == IF config.cacheEnabled THEN CacheGet(c, key, t) ELSE Null

(* Variant: the per-call max-age is not passed on to the cache *)
SetCachedData_NoMaxAge(config, c, key, data, maxAge, t) ==
    IF config.cacheEnabled THEN CacheSet(c, key, data, None, t, config) ELSE c

(* Variant: the max-age of the configuration comes before the one of the call *)
SetCachedData_ConfigFirst(config, c, key, data, maxAge, t) ==
    IF config.cacheEnabled
    THEN CacheSet(c, key, data, IF config.cacheMaxAge # None THEN None ELSE maxAge, t, config)
    ELSE c

(* Variant: an entry that is stored is not replaced *)
SetCachedData_IfAbsent(config, c, key, data, maxAge, t) ==
    IF config.cacheEnabled /\ c[key] = None THEN CacheSet(c, key, data, maxAge, t, config) ELSE c

(* PRCClient.setCachedData: if (this.cache) await this.cache.set(key, data, maxAge) *)
SetCachedData(config, c, key, data, maxAge, t) ==
    IF config.cacheEnabled THEN CacheSet(c, key, data, maxAge, t, config) ELSE c

(* Variant: the test of this.cache is dropped *)
ClearCacheResult_Keep(config, c) == c

(* PRCClient.clearCache: if (this.cache) await this.cache.clear() *)
ClearCacheResult(config, c) == IF config.cacheEnabled THEN CacheClear(c) ELSE c

(* PRCClient.getCacheSize: this.cache ? await this.cache.size() : 0 *)
GetCacheSizeResult(config, c) == IF config.cacheEnabled THEN CacheSize(c) ELSE 0

(* PRCClient.getCacheEntry: null without a cache, entry.data or null, and  *)
(* null when getRawEntry throws                                           *)
GetCacheEntryResult(config, c, key) ==
    IF ~config.cacheEnabled THEN Null
    ELSE IF AccessorThrows THEN Null
    ELSE IF CacheGetRawEntry(c, key) # None THEN Val(CacheGetRawEntry(c, key)).value
    ELSE Null

(* PRCClient.getCacheKeys: [] without a cache and when getAllKeys throws *)
GetCacheKeysResult(config, c) ==
    IF ~config.cacheEnabled THEN {}
    ELSE IF AccessorThrows THEN {}
    ELSE CacheGetAllKeys(c)

----------------------------------------------------------------------------
(* The state of one call of an endpoint method.  pc is the position of the *)
(* call in makeRequest: "probe" awaits the cache lookup, "fetch" awaits    *)
(* the response of the request it sent, "wait" is suspended in             *)
(* waitForRetryAfter, "done" has returned or raised.  The fields after     *)
(* `result` record what the call did, for the properties below: the number *)
(* of requests it sent, whether it looked the cache up and wrote it, the   *)
(* last write-through to its path as of the moment it reached line 183     *)
(* (seen, seenAt, kept until its first response), the last response it     *)
(* received, its last wait, the time it has spent waiting and whether it   *)
(* has sent its request again after a response whose body code was not     *)
(* 4001 (retriedNon4001), and whether its cache lookup removed an entry     *)
(* (evicted).  The variable origin records, per path, the                   *)
(* last write-through since the cache was last cleared: the data the       *)
(* writing call returned, when, the max-age it asked for, and whether a    *)
(* later call has fetched the path from the server without writing it.     *)

NoResult == [kind |-> "none", data |-> "none", code |-> UNKNOWN, retryAfter |-> None]

OkResult(data) == [kind |-> "ok", data |-> data, code |-> UNKNOWN, retryAfter |-> None]

(* handleErrorResponse: throw PRCAPIError.fromResponse(response, errorBody) *)
ErrorResult(body) ==
    [kind |-> "error", data |-> "none",
     code |-> FromResponse(body).code, retryAfter |-> FromResponse(body).retryAfter]

(* JavaScript truthiness of an optional string: !!x *)
TruthyString(o) == o # None /\ o # Some("")

(* The headers object: a header that is not set is None *)
NoHeaders ==
    [ContentType |-> None, Accept |-> None, Authorization |-> None, ServerKey |-> None]

(* Variant: the server key is set whenever the option is given *)
BuildHeaders_AnyServerKey(globalKey, serverKey) ==
    [ContentType   |-> Some("application/json"),
     Accept        |-> Some("*/*"),
     Authorization |-> IF TruthyString(globalKey) THEN globalKey ELSE None,
     ServerKey     |-> serverKey]

(* buildHeaders, over this.globalKey and this.serverKey *)
BuildHeaders(globalKey, serverKey) ==
    [ContentType   |-> Some("application/json"),
     Accept        |-> Some("*/*"),
     Authorization |-> IF TruthyString(globalKey) THEN globalKey ELSE None,
     ServerKey     |-> IF TruthyString(serverKey) THEN serverKey ELSE None]

(* The commands a caller sends: the n-th call of a behaviour, if it is an *)
(* executeCommand, sends Commands[n % 2 + 1]                               *)
Commands == <<":h hello", "">>

(* The body an endpoint method hands to makeRequest: { command } or none *)
BodyOf(ep, n) ==
    IF ep = "executeCommand" THEN Some([command |-> Commands[(n % 2) + 1]]) ELSE None

(* JSON.stringify({ command }) *)
JSONStringify(body) == "{\"command\":\"" \o body.command \o "\"}"

(* buildFetchOptions: an object is truthy, so `body` is false only when absent *)
BuildFetchOptions(method, body, headers) ==
    [method  |-> method,
     headers |-> headers,
     body    |-> IF method # "GET" /\ body # None
                 THEN Some(JSONStringify(Val(body))) ELSE None]

(* fetch(url, fetchOptions) of one attempt of call c: lines 190-192.  A call *)
(* keeps the set of the requests it has sent: attempts that differ in any   *)
(* part are two elements of it                                              *)
Request(c, headers) ==
    [path |-> Path(c.ep), options |-> BuildFetchOptions(Method(c.ep), c.body, headers)]

NoWait == [from |-> 0, secs |-> 0, until |-> 0]

IdleCall ==
    [pc |-> "idle", ep |-> "none", opts |-> NoOptions, shouldCache |-> FALSE,
     retryCount |-> 0, wakeAt |-> 0, result |-> NoResult,
     requests |-> 0, probed |-> FALSE, wrote |-> FALSE, seen |-> None, seenAt |-> 0,
     lastResp |-> NoResponse, lastWait |-> NoWait, waitedMs |-> 0,
     retriedNon4001 |-> FALSE, evicted |-> FALSE, body |-> None, sent |-> {}]

(* An endpoint method called with `opts`: the arguments of makeRequest and   *)
(* the resolution of the cache policy (client.ts line 181).  Without a cache *)
(* probe the first request is sent before the call first yields.             *)
NewCall(ep, opts) ==
    LET fwd    == ForwardedOptions(ep, opts)
        should == ShouldCache(Method(ep), CacheableArg(ep, fwd), fwd.cache)
        new    == [IdleCall EXCEPT !.pc = IF should THEN "probe" ELSE "fetch",
                                   !.ep = ep, !.opts = fwd, !.shouldCache = should,
                                   !.body = BodyOf(ep, started)]
    IN  IF should THEN new
        ELSE [new EXCEPT !.requests = 1, !.sent = {Request(new, client.headers)}]

Active(c) == c.pc \in {"probe", "fetch", "wait"}

NumActive == Cardinality({s \in Slots : Active(calls[s])})

(* The scenario of a behaviour: which endpoint methods the caller uses and *)
(* how many calls it keeps in flight at once.                              *)
OptionsOf(ep) == IF ep = "executeCommand" THEN {NoOptions} ELSE MethodOptions

Configs == [cacheEnabled : BOOLEAN, cacheMaxAge : ConfigMaxAges]

(* A constructed client whose cache, if it has one, is the memory backend *)
MemoryClient ==
    [state |-> "ready", backend |-> "memory", connected |-> TRUE, cleared |-> FALSE,
     globalKey |-> None, serverKey |-> Some("server-key"),
     headers |-> BuildHeaders(None, Some("server-key"))]

(* No outcome is waiting for the caller *)
NoOp == [op |-> "none"]

(* Before the constructor has run, and after it has thrown: no instance *)
NoClient ==
    [state |-> "none", backend |-> "none", connected |-> FALSE, cleared |-> FALSE,
     globalKey |-> None, serverKey |-> None, headers |-> NoHeaders]

FailedClient == [NoClient EXCEPT !.state = "failed"]

NoConfig == [cacheEnabled |-> FALSE, cacheMaxAge |-> None]

(* PRCClientOptions: { serverKey?, globalKey?, cache?, cacheMaxAge?, redisUrl? } *)
ServerKeys == {None, Some(""), Some("server-key")}

GlobalKeys == {None, Some("global-key")}

RedisUrls == {None, Some("redis://localhost:6379")}

PRCClientOptions ==
    [serverKey : ServerKeys, globalKey : GlobalKeys, cache : CacheOpts,
     cacheMaxAge : ConfigMaxAges, redisUrl : RedisUrls]

(* Variant: || in place of && *)
MissingKeys_Either(options) ==
    ~TruthyString(options.serverKey) \/ ~TruthyString(options.globalKey)

(* !options.serverKey && !options.globalKey *)
MissingKeys(options) ==
    ~TruthyString(options.serverKey) /\ ~TruthyString(options.globalKey)

(* Variant: the cache is created whatever options.cache says *)
ConfigOf_CacheOn(options) == [cacheEnabled |-> TRUE, cacheMaxAge |-> options.cacheMaxAge]

(* options.cache !== false ? new Cache(cacheMaxAge, redisUrl, redisKeyPrefix) : null *)
ConfigOf(options) ==
    [cacheEnabled |-> options.cache # Some(FALSE), cacheMaxAge |-> options.cacheMaxAge]

(* The backend of the cache the constructor creates; up: the networked store *)
(* accepts the connection                                                    *)
ClientOf(options, up) ==
    [state     |-> "ready",
     backend   |-> IF options.cache = Some(FALSE) THEN "none"
                   ELSE IF options.redisUrl # None THEN "redis" ELSE "memory",
     connected |-> IF options.cache # Some(FALSE) /\ options.redisUrl # None THEN up ELSE TRUE,
     cleared   |-> FALSE,
     globalKey |-> options.globalKey,
     serverKey |-> options.serverKey,
     headers   |-> BuildHeaders(options.globalKey, options.serverKey)]

TypeOK ==
    /\ cfg \in Configs
    /\ now \in 0..(MaxTicks * TickMs)
    /\ started \in 0..MaxCalls
    /\ \A s \in Slots : calls[s].pc \in {"idle", "probe", "fetch", "wait", "done"}

----------------------------------------------------------------------------
(* Actions *)

(* Variant: the key is the first segment of the path *)
CacheKey_FirstSegment(method, endpoint) == "/server"

(* const cacheKey = `${endpoint}`: the path alone, without the verb *)
CacheKey(method, endpoint) == endpoint

(* The max-age a write-through with these options asks the cache for *)
WrittenMaxAge(config, opts) ==
    IF opts.cacheMaxAge # None THEN Val(opts.cacheMaxAge)
    ELSE IF config.cacheMaxAge # None THEN Val(config.cacheMaxAge)
    ELSE DefaultMaxAge

(* The caller invokes endpoint method ep with options opts *)
StartCall(s, ep, opts) ==
    /\ client.state = "ready"
    /\ s <= env.width
    /\ calls[s].pc = "idle"
    /\ NumActive < env.width
    /\ started < MaxCalls
    /\ ep \in env.scope
    /\ opts \in env.options
    /\ started' = started + 1
    /\ calls' = [calls EXCEPT ![s] =
          [NewCall(ep, opts) EXCEPT !.seen = IF NewCall(ep, opts).shouldCache
                                             THEN None ELSE origin[Path(ep)],
                                    !.seenAt = now]]
    /\ UNCHANGED <<client, last, cfg, env, now, cache, origin>>

(* Variant: an entry older than the max-age of the call reads as a miss *)
ProbedData_WithinMaxAge(config, c, key, maxAge, t) ==
    IF maxAge # None /\ c[key] # None /\ t - Val(c[key]).storedAt > Val(maxAge)
    THEN Null
    ELSE GetCachedData(config, c, key, t)

(* await this.getCachedData<T>(cacheKey): the cacheMaxAge of the call is not *)
(* among the arguments                                                       *)
ProbedData(config, c, key, maxAge, t) == GetCachedData(config, c, key, t)

(* makeRequest lines 183-187 and, on a miss, the first fetch of line 192 *)
Probe(s) ==
    LET c    == calls[s]
        key  == CacheKey(Method(c.ep), Path(c.ep))
        data == ProbedData(cfg, cache, key, c.opts.cacheMaxAge, now)
        after == IF cfg.cacheEnabled THEN CacheAfterGet(cache, key, now) ELSE cache
    IN  /\ c.pc = "probe"
        /\ cache' = after
        /\ calls' = [calls EXCEPT ![s] =
              IF data # Null
              THEN [c EXCEPT !.pc = "done", !.result = OkResult(data),
                             !.probed = TRUE, !.seen = origin[key], !.seenAt = now,
                             !.evicted = (after # cache)]
              ELSE [c EXCEPT !.pc = "fetch", !.requests = 1,
                             !.sent = c.sent \cup {Request(c, client.headers)},
                             !.probed = TRUE, !.seen = origin[key], !.seenAt = now,
                             !.evicted = (after # cache)]]
        /\ UNCHANGED <<client, last, cfg, env, now, started, origin>>

(* A 2xx response: lines 206-211, decode, write through, return *)
RespondOk(s, r) ==
    LET c    == calls[s]
        key  == CacheKey(Method(c.ep), Path(c.ep))
        data == ParseResponseData(r)
        age  == c.opts.cacheMaxAge
        stores == c.shouldCache /\ cfg.cacheEnabled /\ ~Inert
    IN  /\ c.pc = "fetch"
        /\ r \in OkResponses
        /\ cache' = IF c.shouldCache
                    THEN SetCachedData(cfg, cache, key, data, age, now)
                    ELSE cache
        /\ client' = IF stores THEN [client EXCEPT !.cleared = FALSE] ELSE client
        /\ origin' = IF stores
                     THEN [origin EXCEPT ![key] =
                             Some([data |-> data, at |-> now,
                                   maxAge |-> WrittenMaxAge(cfg, c.opts),
                                   bypassed |-> FALSE])]
                     ELSE IF origin[key] # None
                     THEN [origin EXCEPT ![key] =
                             Some([Val(origin[key]) EXCEPT !.bypassed = TRUE])]
                     ELSE origin
        /\ calls' = [calls EXCEPT ![s] =
              [c EXCEPT !.pc = "done", !.result = OkResult(data), !.lastResp = r,
                        !.lastWait = NoWait, !.seen = None, !.seenAt = 0,
                        !.wrote = stores]]
        /\ UNCHANGED <<last, cfg, env, now, started>>

(* Variant: the retry counter is a field of the client, one for all calls *)
RetryCountOf_Shared(cs, s) ==
    LET most == CHOOSE t \in Slots : \A u \in Slots : cs[u].retryCount <= cs[t].retryCount
    IN  cs[most].retryCount

(* let retryCount = 0: the counter is a local variable of the call *)
RetryCountOf(cs, s) == cs[s].retryCount

(* Variant: only a read is retried *)
ShouldRetryRequest_ReadsOnly(method, body, retryCount) ==
    method = "GET" /\ ShouldRetry(body, retryCount, MAX_RETRIES)

(* if (await this.shouldRetry(errorBody, retryCount, maxRetries)): the verb *)
(* of the request is not among the arguments                                *)
ShouldRetryRequest(method, body, retryCount) ==
    ShouldRetry(body, retryCount, MAX_RETRIES)

(* A non-2xx response: lines 194-204 with shouldRetry, lines 118-130 *)
RespondError(s, r) ==
    LET c    == calls[s]
        body == ParseErrorBody(r)
        ms   == RetryWaitMs(body)
        other == c.retriedNon4001 \/ body.code # Some(RATE_LIMITED)
    IN  /\ c.pc = "fetch"
        /\ r \in env.errors
        /\ calls' = [calls EXCEPT ![s] =
              IF ShouldRetryRequest(Method(c.ep), body, RetryCountOf(calls, s))
              THEN IF ms > 0
                   THEN [c EXCEPT !.pc = "wait", !.wakeAt = now + ms,
                                  !.seen = None, !.seenAt = 0, !.retriedNon4001 = other,
                                  !.lastWait = [from |-> now, secs |-> Val(body.retry_after),
                                                until |-> 0]]
                   ELSE [c EXCEPT !.pc = "fetch", !.retryCount = c.retryCount + 1,
                                  !.requests = c.requests + 1, !.lastWait = NoWait,
                                  !.sent = c.sent \cup {Request(c, client.headers)},
                                  !.seen = None, !.seenAt = 0, !.retriedNon4001 = other]
              ELSE [c EXCEPT !.pc = "done", !.result = ErrorResult(body), !.lastResp = r,
                             !.lastWait = NoWait, !.seen = None, !.seenAt = 0]]
        /\ UNCHANGED <<client, last, cfg, env, now, cache, started, origin>>

(* Variant: the retry starts makeRequest over, cache lookup included *)
Wake_Reprobe(s) ==
    LET c == calls[s]
    IN  /\ c.pc = "wait"
        /\ now >= c.wakeAt
        /\ calls' = [calls EXCEPT ![s] =
              [c EXCEPT !.pc = IF c.shouldCache THEN "probe" ELSE "fetch",
                        !.retryCount = c.retryCount + 1, !.wakeAt = 0,
                        !.requests = IF c.shouldCache THEN 0 ELSE c.requests + 1,
                        !.waitedMs = c.waitedMs + (c.wakeAt - c.lastWait.from),
                        !.lastWait = [c.lastWait EXCEPT !.until = now]]]
        /\ UNCHANGED <<client, last, cfg, env, now, cache, started, origin>>

(* The retry-after timer fires: shouldRetry resolves, retryCount++, continue *)
Wake(s) ==
    LET c == calls[s]
    IN  /\ c.pc = "wait"
        /\ now >= c.wakeAt
        /\ calls' = [calls EXCEPT ![s] =
              [c EXCEPT !.pc = "fetch", !.retryCount = c.retryCount + 1, !.wakeAt = 0,
                        !.requests = c.requests + 1,
                        !.sent = c.sent \cup {Request(c, client.headers)},
                        !.waitedMs = c.waitedMs + (c.wakeAt - c.lastWait.from),
                        !.lastWait = [c.lastWait EXCEPT !.until = now]]]
        /\ UNCHANGED <<client, last, cfg, env, now, cache, started, origin>>

(* The caller takes the envelope or the error of a finished call.  A finished *)
(* call is observed in the state its last step left: the clock, the expiry    *)
(* timers and clearCache act again once the caller has taken the outcome.     *)
Collect(s) ==
    /\ calls[s].pc = "done"
    /\ calls' = [calls EXCEPT ![s] = IdleCall]
    /\ UNCHANGED <<client, last, cfg, env, now, cache, started, origin>>

Observed == \E s \in Slots : calls[s].pc = "done"

(* PRCClient.clearCache, on a cache that holds an entry *)
ClearCache ==
    /\ ~Observed
    /\ cfg.cacheEnabled
    /\ ~Inert
    /\ cache # EmptyCache
    /\ cache' = ClearCacheResult(cfg, cache)
    /\ origin' = [p \in Paths |-> None]
    /\ client' = [client EXCEPT !.cleared = TRUE]
    /\ UNCHANGED <<last, cfg, env, now, calls, started>>

(* The expiry action the memory backend scheduled for the entry under key *)
Expire(key) ==
    /\ ~Observed
    /\ cache[key] # None
    /\ ExpiryDue(Val(cache[key]), now)
    /\ cache' = [cache EXCEPT ![key] = None]
    /\ UNCHANGED <<client, last, cfg, env, now, calls, started, origin>>

(* Something in the state depends on the clock: an entry ages, a call waits *)
TimeMatters ==
    \/ \E s \in Slots : calls[s].pc = "wait"
    \/ cache # EmptyCache /\ (started < MaxCalls \/ \E s \in Slots : Active(calls[s]))

(* Time passes *)
Tick ==
    /\ ~Observed
    /\ now + TickMs <= MaxTicks * TickMs
    /\ TimeMatters
    /\ now' = now + TickMs
    /\ UNCHANGED <<client, last, cfg, env, cache, calls, started, origin>>

Next ==
    \/ \E s \in Slots, ep \in EndpointNames : \E opts \in OptionsOf(ep) : StartCall(s, ep, opts)
    \/ \E s \in Slots : Probe(s)
    \/ \E s \in Slots, r \in Responses : RespondOk(s, r)
    \/ \E s \in Slots, r \in Responses : RespondError(s, r)
    \/ \E s \in Slots : Wake(s)
    \/ \E s \in Slots : Collect(s)
    \/ ClearCache
    \/ \E key \in Paths : Expire(key)
    \/ Tick

----------------------------------------------------------------------------
(* Specifications.  A behaviour is one client and a caller that uses the    *)
(* endpoint methods of env.scope with the options of env.options, keeps at  *)
(* most env.width calls in flight, against a server whose failures are the  *)
(* responses of env.errors.                                                 *)

ErrorResponse(code, errorCode, retryAfter) ==
    [ok |-> FALSE, json |-> TRUE, parses |-> TRUE, data |-> Null,
     body |-> [code |-> code, errorCode |-> errorCode, retry_after |-> retryAfter]]

(* A rate limit that names a delay, and a failure that is not a rate limit *)
FewErrors ==
    {ErrorResponse(Some(RATE_LIMITED), None, Some(1)),
     ErrorResponse(Some(SERVER_OFFLINE), None, None)}

InitWith(envs) ==
    /\ cfg \in Configs
    /\ env \in envs
    /\ now = 0
    /\ cache = EmptyCache
    /\ calls = [s \in Slots |-> IdleCall]
    /\ started = 0
    /\ origin = [p \in Paths |-> None]
    /\ client = MemoryClient
    /\ last = NoOp

(* Spec: the calls of one caller, one after the other, to one read endpoint *)
(* with any options, or to executeCommand and a cached read endpoint        *)
CacheEnvs ==
    [scope : {{ep} : ep \in DefaultCached \cup LogEndpoints}
               \cup {{"executeCommand", "getPlayers"}},
     width : {1}, options : {MethodOptions}, errors : {FewErrors}]

Init == InitWith(CacheEnvs)

Spec == Init /\ [][Next]_vars

(* SpecRetry: the calls of one caller, one after the other and without      *)
(* options, against a server that may fail in every way of ErrResponses     *)
RetryEnvs ==
    [scope : {{"getPlayers"}, {"getJoinLogs"}, {"executeCommand"}},
     width : {1}, options : {{NoOptions}}, errors : {ErrResponses}]

InitRetry == InitWith(RetryEnvs)

SpecRetry == InitRetry /\ [][Next]_vars

(* PRCAPIError.fromResponse(response, body), as handleErrorResponse calls it *)
ThrowFromResponse(response, body) ==
    /\ last' = [op |-> "fromResponse", response |-> response, body |-> body,
                error |-> PRCAPIError(response, body)]
    /\ UNCHANGED <<client, cfg, env, now, cache, calls, started, origin>>

NextErrors ==
    \E response \in FailedStatuses, body \in PRCErrorBodies : ThrowFromResponse(response, body)

(* SpecErrors: the error model alone, on every status and parsed body *)
ErrorEnvs ==
    [scope : {{"getPlayers"}}, width : {1}, options : {{NoOptions}}, errors : {ErrResponses}]

InitErrors == InitWith(ErrorEnvs)

SpecErrors == InitErrors /\ [][NextErrors]_vars

(* new PRCClient(options) *)
Construct(options, up) ==
    /\ client.state = "none"
    /\ last = NoOp
    /\ options \in env.ctor
    /\ IF MissingKeys(options)
       THEN /\ client' = FailedClient
            /\ cfg' = cfg
            /\ last' = [op |-> "constructor", options |-> options, out |-> "Error"]
       ELSE /\ client' = ClientOf(options, up)
            /\ cfg' = ConfigOf(options)
            /\ last' = [op |-> "constructor", options |-> options, out |-> "client"]
    /\ UNCHANGED <<env, now, cache, calls, started, origin>>

(* The caller takes the outcome of the last operation *)
Return ==
    /\ last # NoOp
    /\ last' = NoOp
    /\ UNCHANGED <<client, cfg, env, now, cache, calls, started, origin>>

(* The networked store stops working: from now on the cache is inert,   *)
(* and what the store holds stays where it is, out of reach             *)
BackendFails ==
    /\ ~Observed
    /\ last = NoOp
    /\ client.state = "ready"
    /\ client.backend = "redis"
    /\ client.connected
    /\ client' = [client EXCEPT !.connected = FALSE, !.cleared = FALSE]
    /\ UNCHANGED <<last, cfg, env, now, cache, calls, started, origin>>

(* An accessor of the cache is called between the steps of the calls, a *)
(* debug accessor between the calls                                    *)
Accessible == client.state = "ready" /\ last = NoOp /\ ~Observed

Debuggable == Accessible /\ NumActive = 0

(* PRCClient.getCacheSize *)
GetCacheSize ==
    /\ Accessible
    /\ last' = [op |-> "getCacheSize", out |-> GetCacheSizeResult(cfg, cache)]
    /\ UNCHANGED <<client, cfg, env, now, cache, calls, started, origin>>

(* PRCClient.getCacheEntry: every path of the method returns, the catch *)
(* block included, so the call never throws                            *)
GetCacheEntry(key) ==
    /\ Debuggable
    /\ key \in {Path(ep) : ep \in env.scope}
    /\ last' = [op |-> "getCacheEntry", key |-> key, threw |-> FALSE,
                out |-> GetCacheEntryResult(cfg, cache, key)]
    /\ UNCHANGED <<client, cfg, env, now, cache, calls, started, origin>>

(* PRCClient.getCacheKeys: likewise *)
GetCacheKeys ==
    /\ Debuggable
    /\ last' = [op |-> "getCacheKeys", threw |-> FALSE,
                out |-> GetCacheKeysResult(cfg, cache)]
    /\ UNCHANGED <<client, cfg, env, now, cache, calls, started, origin>>

NextClient ==
    \/ \E options \in PRCClientOptions, up \in BOOLEAN : Construct(options, up)
    \/ Return
    \/ last = NoOp /\ Next
    \/ BackendFails
    \/ GetCacheSize
    \/ \E key \in Paths : GetCacheEntry(key)
    \/ GetCacheKeys

(* SpecClient: a caller constructs a client with any cache switch and       *)
(* backend (with any pair of keys when the options name neither, and when   *)
(* the constructor throws), then calls two default-cached endpoints without *)
(* options, one call after the other                                        *)
ClientEnvs ==
    [scope : {{"getServerStatus", "getPlayers"}}, width : {1}, options : {{NoOptions}},
     errors : {FewErrors},
     ctor : {{o \in PRCClientOptions :
                 /\ o.cacheMaxAge = None
                 /\ \/ MissingKeys(o)
                    \/ o.cache = None /\ o.redisUrl = None
                    \/ o.globalKey = None /\ o.serverKey = Some("server-key")}}]

InitClient ==
    /\ cfg = NoConfig
    /\ env \in ClientEnvs
    /\ now = 0
    /\ cache = EmptyCache
    /\ calls = [s \in Slots |-> IdleCall]
    /\ started = 0
    /\ origin = [p \in Paths |-> None]
    /\ client = NoClient
    /\ last = NoOp

SpecClient == InitClient /\ [][NextClient]_vars

(* The cache store on its own.  set(key, value, maxAge) at the present time *)
StoreMaxAges == {1, TickMs - 1, TickMs, TickMs + 1, 2 * TickMs}

CacheSetOp(key, value, maxAge) ==
    /\ last = NoOp
    /\ key \in {Path(ep) : ep \in env.scope}
    /\ cache' = CacheSet(cache, key, value, Some(maxAge), now, cfg)
    /\ origin' = [origin EXCEPT ![key] =
                     Some([data |-> value, at |-> now, maxAge |-> maxAge, bypassed |-> FALSE])]
    /\ UNCHANGED <<client, last, cfg, env, now, calls, started>>

(* get(key) at the present time: the value or null, and the lazy removal *)
CacheGetOp(key) ==
    /\ last = NoOp
    /\ key \in {Path(ep) : ep \in env.scope}
    /\ last' = [op |-> "get", key |-> key, at |-> now, entry |-> cache[key],
                out |-> CacheGet(cache, key, now)]
    /\ cache' = CacheAfterGet(cache, key, now)
    /\ UNCHANGED <<client, cfg, env, now, calls, started, origin>>

NextCache ==
    \/ \E key \in Paths, value \in Data, maxAge \in StoreMaxAges : CacheSetOp(key, value, maxAge)
    \/ \E key \in Paths : CacheGetOp(key)
    \/ Return
    \/ last = NoOp /\ Tick
    \/ last = NoOp /\ \E key \in Paths : Expire(key)

(* SpecCache: sets and gets of one key of a memory cache as time passes and *)
(* the scheduled expiries run or are late                                   *)
InitCache == InitWith(ErrorEnvs) /\ cfg = [cacheEnabled |-> TRUE, cacheMaxAge |-> None]

SpecCache == InitCache /\ [][NextCache]_vars

(* The retry-after timer of a suspended call runs: time passes while a call *)
(* waits for it                                                            *)
Elapse ==
    /\ \E s \in Slots : calls[s].pc = "wait" /\ now < calls[s].wakeAt
    /\ now' = now + TickMs
    /\ UNCHANGED <<client, last, cfg, env, cache, calls, started, origin>>

NextLive ==
    \/ \E s \in Slots, ep \in EndpointNames : \E opts \in OptionsOf(ep) : StartCall(s, ep, opts)
    \/ \E s \in Slots : Probe(s)
    \/ \E s \in Slots, r \in Responses : RespondOk(s, r)
    \/ \E s \in Slots, r \in Responses : RespondError(s, r)
    \/ \E s \in Slots : Wake(s)
    \/ \E s \in Slots : Collect(s)
    \/ Elapse

(* Rate limits with and without a delay, in either field of the body, and a *)
(* failure that is not a rate limit                                         *)
LiveErrors ==
    FewErrors \cup {ErrorResponse(Some(RATE_LIMITED), None, None),
                    ErrorResponse(None, Some(RATE_LIMITED), Some(0))}

LiveEnvs ==
    [scope : {{"getPlayers"}, {"executeCommand"}}, width : {1}, options : {{NoOptions}},
     errors : {LiveErrors}]

InitLive == InitWith(LiveEnvs)

(* Every cache lookup completes, every request receives a response, every *)
(* retry-after wait elapses                                               *)
LiveFairness ==
    /\ \A s \in Slots :
          /\ WF_vars(Probe(s))
          /\ WF_vars(\E r \in Responses : RespondOk(s, r) \/ RespondError(s, r))
          /\ WF_vars(Wake(s))
    /\ WF_vars(Elapse)

(* SpecLive: the calls of one caller to a cached read endpoint or to       *)
(* executeCommand, each awaited operation of a call completing in the end  *)
SpecLive == InitLive /\ [][NextLive]_vars /\ LiveFairness

(* SpecConcurrent: a caller keeps two calls in flight at once, as           *)
(* getServerStats does with Promise.all, to a cached or an uncached read   *)
ConcurrentEnvs ==
    [scope : {{"getServerStatus"}, {"getJoinLogs"}}, width : {2}, options : {{NoOptions}},
     errors : {FewErrors}]

InitConcurrent == InitWith(ConcurrentEnvs) /\ cfg = [cacheEnabled |-> TRUE, cacheMaxAge |-> None]

SpecConcurrent == InitConcurrent /\ [][NextLive]_vars

(* SpecProvenance: reads of two paths, or reads of one path and commands, *)
(* one call after the other, on a client with a cache                    *)
ProvenanceEnvs ==
    [scope : {{"getServerStatus", "getPlayers"}, {"getPlayers", "executeCommand"}},
     width : {1}, options : {{NoOptions}}, errors : {FewErrors}]

InitProvenance == InitWith(ProvenanceEnvs) /\ cfg.cacheEnabled

SpecProvenance == InitProvenance /\ [][Next]_vars

(* SpecMaxAge: calls of getPlayers, one after the other, with and without a *)
(* cacheMaxAge of one tick                                                 *)
MaxAgeOptions == {[cache |-> None, cacheMaxAge |-> m] : m \in {None, Some(TickMs)}}

MaxAgeEnvs ==
    [scope : {{"getPlayers"}}, width : {1}, options : {MaxAgeOptions}, errors : {FewErrors}]

NextMaxAge ==
    \/ \E s \in Slots, opts \in MaxAgeOptions : StartCall(s, "getPlayers", opts)
    \/ \E s \in Slots : Probe(s)
    \/ \E s \in Slots, r \in Responses : RespondOk(s, r)
    \/ \E s \in Slots, r \in Responses : RespondError(s, r)
    \/ \E s \in Slots : Wake(s)
    \/ \E s \in Slots : Collect(s)
    \/ ClearCache
    \/ \E key \in Paths : Expire(key)
    \/ Tick

InitMaxAge == InitWith(MaxAgeEnvs)

SpecMaxAge == InitMaxAge /\ [][NextMaxAge]_vars

(* SpecRequests: a caller constructs a client with any pair of keys, then *)
(* reads the players and sends commands, one call after the other        *)
NextRequests ==
    \/ \E options \in PRCClientOptions, up \in BOOLEAN : Construct(options, up)
    \/ Return
    \/ last = NoOp /\ Next

RequestEnvs ==
    [scope : {{"getPlayers", "executeCommand"}}, width : {1}, options : {{NoOptions}},
     errors : {LiveErrors},
     ctor : {{o \in PRCClientOptions :
                 o.cacheMaxAge = None /\ o.cache = None /\ o.redisUrl = None}}]

InitRequests ==
    /\ cfg = NoConfig
    /\ env \in RequestEnvs
    /\ now = 0
    /\ cache = EmptyCache
    /\ calls = [s \in Slots |-> IdleCall]
    /\ started = 0
    /\ origin = [p \in Paths |-> None]
    /\ client = NoClient
    /\ last = NoOp

SpecRequests == InitRequests /\ [][NextRequests]_vars

(* Several clients on one networked store.  Each client's cache was built   *)
(* with its own key prefix; cache holds the store, by prefixed key, and     *)
(* origin the prefix of the client that wrote each stored entry.            *)
SharedPrefixes == {"a", "b"}

(* Key namespacing: the prefix is concatenated, prefix:key *)
PrefixedKey(prefix, key) == prefix \o ":" \o key

StoreKeys == {PrefixedKey(prefix, Path(ep)) : prefix \in SharedPrefixes, ep \in env.scope}

(* The keys of the store the enumeration of a client returns: the spec     *)
(* names the operation and not its pattern, so env.enumerates is either    *)
NetworkedKeys(store, prefix) ==
    {fk \in DOMAIN store :
        /\ store[fk] # None
        /\ env.enumerates = "prefix" =>
              \E key \in Paths : fk = PrefixedKey(prefix, key)}

(* clear() on the networked backend: flush-all *)
NetworkedFlushAll(store) == [fk \in DOMAIN store |-> None]

(* The outcome of an operation of the client with this prefix *)
SharedOutcome(op, prefix, key, hit, out) ==
    [op |-> op, by |-> prefix, key |-> key, hit |-> hit, out |-> out,
     from |-> IF key \in DOMAIN origin THEN origin[key] ELSE None,
     own |-> Cardinality({fk \in DOMAIN origin : origin[fk] = Some(prefix)})]

SharedSet(prefix, key, value) ==
    LET fk == PrefixedKey(prefix, key)
    IN  /\ last = NoOp
        /\ fk \in DOMAIN cache
        /\ cache' = CacheSet(cache, fk, value, None, now, cfg)
        /\ origin' = [origin EXCEPT ![fk] = Some(prefix)]
        /\ last' = SharedOutcome("set", prefix, fk, FALSE, Null)
        /\ UNCHANGED <<client, cfg, env, now, calls, started>>

SharedGet(prefix, key) ==
    LET fk == PrefixedKey(prefix, key)
    IN  /\ last = NoOp
        /\ fk \in DOMAIN cache
        /\ last' = SharedOutcome("get", prefix, fk, CacheGet(cache, fk, now) # Null,
                                CacheGet(cache, fk, now))
        /\ UNCHANGED <<client, cfg, env, now, cache, calls, started, origin>>

SharedHas(prefix, key) ==
    LET fk == PrefixedKey(prefix, key)
    IN  /\ last = NoOp
        /\ fk \in DOMAIN cache
        /\ last' = SharedOutcome("has", prefix, fk, cache[fk] # None, cache[fk] # None)
        /\ UNCHANGED <<client, cfg, env, now, cache, calls, started, origin>>

SharedDelete(prefix, key) ==
    LET fk == PrefixedKey(prefix, key)
    IN  /\ last = NoOp
        /\ fk \in DOMAIN cache
        /\ cache' = [cache EXCEPT ![fk] = None]
        /\ origin' = [origin EXCEPT ![fk] = None]
        /\ last' = SharedOutcome("delete", prefix, fk, cache[fk] # None, cache[fk] # None)
        /\ UNCHANGED <<client, cfg, env, now, calls, started>>

SharedClear(prefix) ==
    /\ last = NoOp
    /\ prefix \in SharedPrefixes
    /\ cache' = NetworkedFlushAll(cache)
    /\ origin' = [fk \in DOMAIN origin |-> None]
    /\ last' = SharedOutcome("clear", prefix, "", FALSE, Null)
    /\ UNCHANGED <<client, cfg, env, now, calls, started>>

SharedSize(prefix) ==
    /\ last = NoOp
    /\ prefix \in SharedPrefixes
    /\ last' = SharedOutcome("size", prefix, "", FALSE, Cardinality(NetworkedKeys(cache, prefix)))
    /\ UNCHANGED <<client, cfg, env, now, cache, calls, started, origin>>

NextShared ==
    \/ \E prefix \in SharedPrefixes, key \in Paths, value \in Data : SharedSet(prefix, key, value)
    \/ \E prefix \in SharedPrefixes, key \in Paths : SharedGet(prefix, key)
    \/ \E prefix \in SharedPrefixes, key \in Paths : SharedHas(prefix, key)
    \/ \E prefix \in SharedPrefixes, key \in Paths : SharedDelete(prefix, key)
    \/ \E prefix \in SharedPrefixes : SharedClear(prefix)
    \/ \E prefix \in SharedPrefixes : SharedSize(prefix)
    \/ Return

(* SpecShared: two clients with the prefixes a and b set, get, test, delete, *)
(* clear and count the entries of two endpoints on one working store         *)
SharedEnvs ==
    [scope : {{"getServerStatus", "getPlayers"}}, width : {1}, options : {{NoOptions}},
     errors : {FewErrors}, enumerates : {"prefix", "all"}]

InitShared ==
    /\ cfg = [cacheEnabled |-> TRUE, cacheMaxAge |-> None]
    /\ env \in SharedEnvs
    /\ now = 0
    /\ cache = [fk \in StoreKeys |-> None]
    /\ calls = [s \in Slots |-> IdleCall]
    /\ started = 0
    /\ origin = [fk \in StoreKeys |-> None]
    /\ client = [MemoryClient EXCEPT !.backend = "redis"]
    /\ last = NoOp

SpecShared == InitShared /\ [][NextShared]_vars

----------------------------------------------------------------------------
(* The helpers (PRCHelpers).  A string is a sequence of characters.  What an *)
(* endpoint method gives a helper is an envelope with the decoded data (a    *)
(* list, a status, or null for a body that is not JSON) or a raised          *)
(* PRCAPIError.                                                              *)

(* The lower-case form of a character *)
LowerOf(ch) ==
    CASE ch = "A" -> "a" [] ch = "B" -> "b" [] ch = "O" -> "o" [] ch = "Z" -> "z"
      [] ch = "D" -> "d" [] ch = "T" -> "t" [] ch = "J" -> "j"
      [] OTHER -> ch

(* String.prototype.toLowerCase *)
ToLowerCase(str) == [i \in 1..Len(str) |-> LowerOf(str[i])]

(* String.prototype.includes *)
Includes(str, q) ==
    /\ Len(q) <= Len(str)
    /\ \E i \in 0..(Len(str) - Len(q)) : SubSeq(str, i + 1, i + Len(q)) = q

Bob == [Player |-> <<"B", "o", "b", ":", "1">>, Team |-> "Police"]
Alice == [Player |-> <<"A", "l", "i", "c", "e", ":", "2">>, Team |-> "Civilian"]
Bobby == [Player |-> <<"b", "O", "b", "b", "y", ":", "3">>, Team |-> "Sheriff"]

Players == {Bob, Alice, Bobby}

PlayerLists ==
    {<<>>} \cup {<<p>> : p \in Players} \cup {<<p, r>> : p, r \in Players}
           \cup {<<Alice, p, r>> : p, r \in Players}

QueryChars == {"b", "B", "o", ":", "1", "z"}

Queries ==
    {<<>>} \cup {<<a>> : a \in QueryChars} \cup {<<a, b>> : a, b \in QueryChars}
           \cup {<<"b", "o", "b">>, <<"z", "z", "z">>, <<"A", "L", "I">>}

ApiErrorCodes == {RATE_LIMITED, SERVER_OFFLINE}

Envelope(data) == [kind |-> "data", data |-> Some(data), code |-> UNKNOWN]

NullEnvelope == [kind |-> "null", data |-> None, code |-> UNKNOWN]

Raised(code) == [kind |-> "PRCAPIError", data |-> None, code |-> code]

(* What getPlayers can settle to *)
GetPlayersOutcomes ==
    {Envelope(players) : players \in PlayerLists} \cup {NullEnvelope}
        \cup {Raised(code) : code \in ApiErrorCodes}

(* What a helper settles to: a value, null, or an error of some kind *)
Returned(value) == [kind |-> "value", value |-> Some(value), code |-> UNKNOWN]

ReturnedNull == [kind |-> "null", value |-> None, code |-> UNKNOWN]

Threw(kind, code) == [kind |-> kind, value |-> None, code |-> code]

(* Variant: the match is case-sensitive *)
FindPlayerMatch_CaseSensitive(p, nameOrId) == Includes(p.Player, nameOrId)

(* The predicate findPlayer passes to Array.prototype.find *)
FindPlayerMatch(p, nameOrId) ==
    \/ Includes(ToLowerCase(p.Player), ToLowerCase(nameOrId))
    \/ Includes(p.Player, nameOrId)

(* players.find(...) || null: the first element the predicate accepts *)
FindPlayerIn(players, nameOrId) ==
    LET hits == {i \in 1..Len(players) : FindPlayerMatch(players[i], nameOrId)}
    IN  IF hits = {} THEN ReturnedNull
        ELSE Returned(players[CHOOSE i \in hits : \A j \in hits : i <= j])

(* findPlayer after getPlayers has settled: the error of getPlayers        *)
(* propagates, and players.find on null data is a TypeError                *)
FindPlayerResult(got, nameOrId) ==
    CASE got.kind = "PRCAPIError" -> Threw("PRCAPIError", got.code)
      [] got.kind = "null"        -> Threw("TypeError", UNKNOWN)
      [] OTHER                    -> FindPlayerIn(Val(got.data), nameOrId)

(* PRCHelpers.findPlayer(nameOrId) *)
FindPlayer(nameOrId, got) ==
    /\ last = NoOp
    /\ last' = [op |-> "findPlayer", pc |-> "done", q |-> nameOrId, got |-> got,
                out |-> FindPlayerResult(got, nameOrId)]
    /\ UNCHANGED <<client, cfg, env, now, cache, calls, started, origin>>

(* getServerStats.  Timestamps are in seconds, Date.now() in milliseconds *)
SecondsPerHour == 3600

DateNows == {2 * SecondsPerHour * MsPerSecond, 2 * SecondsPerHour * MsPerSecond + 500}

StatHours == {0, 1, 2}

StatTimestamps == {SecondsPerHour, SecondsPerHour + 1}

JoinLogs == [Join : BOOLEAN, Timestamp : StatTimestamps, Player : {Bob.Player, Alice.Player}]

OtherLogs == [Timestamp : StatTimestamps]

UpToTwo(S) == {<<>>} \cup {<<a>> : a \in S} \cup {<<a, b>> : a, b \in S}

ServerStatuses == {[CurrentPlayers |-> 1, MaxPlayers |-> 2]}

OneJoin == <<[Join |-> TRUE, Timestamp |-> SecondsPerHour + 1, Player |-> Bob.Player]>>

OneOther == <<[Timestamp |-> SecondsPerHour + 1]>>

(* What the five reads of getServerStats settle to: every list of join    *)
(* logs, every combination of the other logs, and reads that fail         *)
StatsReads ==
    [status : {Envelope(st) : st \in ServerStatuses},
     joinLogs : {Envelope(l) : l \in UpToTwo(JoinLogs)},
     killLogs : {Envelope(OneOther)}, commandLogs : {Envelope(OneOther)},
     modCalls : {Envelope(OneOther)}]
    \cup
    [status : {Envelope(st) : st \in ServerStatuses},
     joinLogs : {Envelope(OneJoin)},
     killLogs : {Envelope(l) : l \in UpToTwo(OtherLogs)},
     commandLogs : {Envelope(l) : l \in UpToTwo(OtherLogs)},
     modCalls : {Envelope(l) : l \in UpToTwo(OtherLogs)}]
    \cup
    [status : {Envelope(st) : st \in ServerStatuses} \cup {Raised(SERVER_OFFLINE)},
     joinLogs : {Envelope(OneJoin), Raised(RATE_LIMITED)},
     killLogs : {Envelope(OneOther), NullEnvelope},
     commandLogs : {Envelope(OneOther)},
     modCalls : {Envelope(OneOther), Raised(RATE_LIMITED)}]

(* How each of the five reads settled *)
ReadsOf(reads) ==
    LET all == <<reads.status, reads.joinLogs, reads.killLogs, reads.commandLogs,
                 reads.modCalls>>
    IN  {[kind |-> all[i].kind, code |-> all[i].code] : i \in DOMAIN all}

(* Variant: >= in place of > *)
AfterCutoff_Inclusive(timestamp, dateNow, hours) ==
    timestamp * MsPerSecond + hours * SecondsPerHour * MsPerSecond >= dateNow

(* log.Timestamp > cutoff, with cutoff = Date.now() / 1000 - hours * 3600 *)
AfterCutoff(timestamp, dateNow, hours) ==
    timestamp * MsPerSecond + hours * SecondsPerHour * MsPerSecond > dateNow

(* The entries logs.filter(...) keeps, by their positions *)
RecentJoins(logs, dateNow, hours) ==
    {i \in 1..Len(logs) : logs[i].Join /\ AfterCutoff(logs[i].Timestamp, dateNow, hours)}

RecentLogs(logs, dateNow, hours) ==
    {i \in 1..Len(logs) : AfterCutoff(logs[i].Timestamp, dateNow, hours)}

(* The object getServerStats returns *)
ServerStats(reads, dateNow, hours) ==
    LET joinLogs == Val(reads.joinLogs.data)
        status   == Val(reads.status.data)
    IN  [current |-> [players |-> status.CurrentPlayers, maxPlayers |-> status.MaxPlayers],
         recent  |->
            [joins    |-> Cardinality(RecentJoins(joinLogs, dateNow, hours)),
             kills    |-> Cardinality(RecentLogs(Val(reads.killLogs.data), dateNow, hours)),
             commands |-> Cardinality(RecentLogs(Val(reads.commandLogs.data), dateNow, hours)),
             modCalls |-> Cardinality(RecentLogs(Val(reads.modCalls.data), dateNow, hours)),
             uniquePlayers |->
                Cardinality({joinLogs[i].Player : i \in RecentJoins(joinLogs, dateNow, hours)})]]

(* What getServerStats can settle to: Promise.all rejects with the error of *)
(* the read that fails first; null data is a TypeError                      *)
ServerStatsResults(reads, dateNow, hours) ==
    IF \E r \in ReadsOf(reads) : r.kind = "PRCAPIError"
    THEN {Threw("PRCAPIError", r.code) : r \in {x \in ReadsOf(reads) : x.kind = "PRCAPIError"}}
    ELSE IF \E r \in ReadsOf(reads) : r.kind = "null"
    THEN {Threw("TypeError", UNKNOWN)}
    ELSE {Returned(ServerStats(reads, dateNow, hours))}

(* PRCHelpers.getServerStats(hours), called when Date.now() is dateNow *)
GetServerStats(hours, dateNow, reads) ==
    /\ last = NoOp
    /\ \E out \in ServerStatsResults(reads, dateNow, hours) :
          last' = [op |-> "getServerStats", pc |-> "done", hours |-> hours,
                   dateNow |-> dateNow, reads |-> reads, out |-> out]
    /\ UNCHANGED <<client, cfg, env, now, cache, calls, started, origin>>

(* The caller takes what a helper settled to *)
HelperReturn ==
    /\ last # NoOp
    /\ last.pc = "done"
    /\ last' = NoOp
    /\ UNCHANGED <<client, cfg, env, now, cache, calls, started, origin>>

NextHelpers ==
    \/ \E nameOrId \in Queries, got \in GetPlayersOutcomes : FindPlayer(nameOrId, got)
    \/ \E hours \in StatHours, dateNow \in DateNows, reads \in StatsReads :
          GetServerStats(hours, dateNow, reads)
    \/ HelperReturn

(* SpecHelpers: the helpers on every outcome of the endpoint methods they call *)
InitHelpers == InitWith(ErrorEnvs) /\ cfg = [cacheEnabled |-> TRUE, cacheMaxAge |-> None]

SpecHelpers == InitHelpers /\ [][NextHelpers]_vars

----------------------------------------------------------------------------
(* kickAllFromTeam.  Teams are written character by character, like the *)
(* Player strings                                                       *)
Dan == [Player |-> <<"D", "a", "n", ":", "4">>, Team |-> <<"D", "O", "T">>]
Eve == [Player |-> <<"E", "v", "e", ":", "5">>, Team |-> <<"D", "O", "T">>]
Finn == [Player |-> <<"F", "i", "n", "n", ":", "6">>, Team |-> <<"J", "a", "i", "l">>]
(* A Player string whose part before the colon is empty *)
Nameless == [Player |-> <<":", "7">>, Team |-> <<"D", "O", "T">>]

TeamPlayers == {Dan, Eve, Finn, Nameless}

TeamLists ==
    {<<>>} \cup {<<p>> : p \in TeamPlayers} \cup {<<p, r>> : p, r \in TeamPlayers}
           \cup {<<Dan, p, r>> : p, r \in TeamPlayers}

Teams == {<<"D", "O", "T">>, <<"d", "o", "t">>, <<"j", "A", "I", "L">>, <<"F", "i", "r", "e">>}

KickReasons == {None, Some(<<>>), Some(<<"a", "f", "k">>)}

TeamOutcomes ==
    {Envelope(players) : players \in TeamLists} \cup {NullEnvelope}
        \cup {Raised(code) : code \in ApiErrorCodes}

(* What executeCommand settles to *)
CommandOutcomes == {NullEnvelope, Raised(SERVER_OFFLINE)}

(* Variant: the teams are compared as they are written *)
TeamMatch_CaseSensitive(p, team) == p.Team = team

(* p.Team.toLowerCase() === team.toLowerCase() *)
TeamMatch(p, team) == ToLowerCase(p.Team) = ToLowerCase(team)

(* getPlayersByTeam after getPlayers has settled *)
GetPlayersByTeamResult(got, team) ==
    CASE got.kind = "PRCAPIError" -> Threw("PRCAPIError", got.code)
      [] got.kind = "null"        -> Threw("TypeError", UNKNOWN)
      [] OTHER -> Returned(SelectSeq(Val(got.data), LAMBDA p : TeamMatch(p, team)))

(* str.split(':')[0]: the part of str before its first colon *)
SplitFirst(str) ==
    LET colons == {i \in 1..Len(str) : str[i] = ":"}
    IN  IF colons = {} THEN str
        ELSE SubSeq(str, 1, (CHOOSE i \in colons : \A j \in colons : i <= j) - 1)

(* Array.prototype.join *)
RECURSIVE Join(_, _)
Join(strs, sep) ==
    IF strs = <<>> THEN <<>>
    ELSE IF Len(strs) = 1 THEN strs[1]
    ELSE strs[1] \o sep \o Join(Tail(strs), sep)

(* players.map(player => player.Player.split(':')[0]).filter(Boolean) *)
UserIds(players) ==
    SelectSeq([i \in 1..Len(players) |-> SplitFirst(players[i].Player)],
              LAMBDA id : id # <<>>)

KickPrefix == <<":", "k", "i", "c", "k", " ">>

(* reason ? `:kick ${userIds.join(',')} ${reason}` : `:kick ${userIds.join(',')}` *)
KickCommand(userIds, reason) ==
    IF reason # None /\ Val(reason) # <<>>
    THEN KickPrefix \o Join(userIds, <<",">>) \o <<" ">> \o Val(reason)
    ELSE KickPrefix \o Join(userIds, <<",">>)

(* PRCHelpers.kickAllFromTeam(team, reason): got is what getPlayers settles *)
(* to, ack what executeCommand settles to if it is called                  *)
KickAllFromTeam(team, reason, got, ack) ==
    LET found    == GetPlayersByTeamResult(got, team)
        players  == IF found.kind = "value" THEN Val(found.value) ELSE <<>>
        userIds  == UserIds(players)
        commands == IF found.kind = "value" /\ Len(userIds) > 0
                    THEN <<KickCommand(userIds, reason)>> ELSE <<>>
        out      == IF found.kind # "value" THEN found
                    ELSE IF commands # <<>> /\ ack.kind = "PRCAPIError"
                    THEN Threw("PRCAPIError", ack.code)
                    ELSE Returned([i \in 1..Len(players) |-> players[i].Player])
    IN  /\ last = NoOp
        /\ last' = [op |-> "kickAllFromTeam", pc |-> "done", team |-> team,
                    reason |-> reason, got |-> got, ack |-> ack,
                    commands |-> commands, out |-> out]
        /\ UNCHANGED <<client, cfg, env, now, cache, calls, started, origin>>

NextKick ==
    \/ \E team \in Teams, reason \in KickReasons, got \in TeamOutcomes,
          ack \in CommandOutcomes : KickAllFromTeam(team, reason, got, ack)
    \/ HelperReturn

(* SpecKick: kickAllFromTeam on every outcome of getPlayers and of *)
(* executeCommand                                                  *)
SpecKick == InitHelpers /\ [][NextKick]_vars

----------------------------------------------------------------------------
(* The polling helpers.  last is the state of the one wait in progress: pc  *)
(* is "poll" while findPlayer or getOnlineCount is awaited, "sleep" while   *)
(* the timer between two polls runs, "done" once the helper has returned or *)
(* thrown.  polls counts the polls started, pollAt is the time the last one *)
(* started at, got what the endpoint method settled to for it.              *)
PlayerPollMs == 1000
CountPollMs == 2000

WaitTimeouts == {0, 1, TickMs, TickMs + 1, 2 * TickMs + 1}

WaitQueries == {<<"b", "o", "b">>, <<"z">>}

WaitCounts == {1, 2}

WaitPlayersOutcomes ==
    {Envelope(<<>>), Envelope(<<Alice>>), Envelope(<<Alice, Bob>>), NullEnvelope,
     Raised(SERVER_OFFLINE)}

WaitStatusOutcomes ==
    {Envelope([CurrentPlayers |-> n, MaxPlayers |-> 2]) : n \in 0..2}
        \cup {NullEnvelope, Raised(SERVER_OFFLINE)}

NoGot == [kind |-> "none", data |-> None, code |-> UNKNOWN]

ReturnedVoid == [kind |-> "void", value |-> None, code |-> UNKNOWN]

(* getOnlineCount after getServerStatus has settled *)
OnlineCountResult(got) ==
    CASE got.kind = "PRCAPIError" -> Threw("PRCAPIError", got.code)
      [] got.kind = "null"        -> Threw("TypeError", UNKNOWN)
      [] OTHER                    -> Returned(Val(got.data).CurrentPlayers)

(* Variant: <= in place of < *)
WithinTimeout_Inclusive(t, startTime, timeoutMs) == t - startTime <= timeoutMs

(* while (Date.now() - startTime < timeoutMs) *)
WithinTimeout(t, startTime, timeoutMs) == t - startTime < timeoutMs

(* The test of the loop at time t: the next poll starts, or the helper *)
(* throws its Error                                                    *)
LoopTest(w, t) ==
    IF WithinTimeout(t, w.startTime, w.timeoutMs)
    THEN [w EXCEPT !.pc = "poll", !.polls = w.polls + 1, !.pollAt = t]
    ELSE [w EXCEPT !.pc = "done", !.out = Threw("Error", UNKNOWN), !.endAt = t]

(* waitForPlayer(nameOrId, timeoutMs) or waitForPlayerCount(count, timeoutMs) *)
WaitStart(op, nameOrId, count, timeoutMs) ==
    /\ last = NoOp
    /\ last' = LoopTest([op |-> op, pc |-> "check", q |-> nameOrId, count |-> count,
                         timeoutMs |-> timeoutMs, startTime |-> now, polls |-> 0,
                         pollAt |-> 0, wakeAt |-> 0, endAt |-> 0, got |-> NoGot,
                         out |-> ReturnedNull], now)
    /\ UNCHANGED <<client, cfg, env, now, cache, calls, started, origin>>

(* waitForPlayer after its poll has settled to got at time t: *)
(* if (player) return player, else sleep                      *)
AfterPlayerPoll(w, got, t) ==
    LET player == FindPlayerResult(got, w.q)
    IN  IF player.kind = "null"
        THEN [w EXCEPT !.pc = "sleep", !.got = got, !.wakeAt = t + PlayerPollMs]
        ELSE [w EXCEPT !.pc = "done", !.got = got, !.out = player, !.endAt = t]

(* The poll of waitForPlayer settles *)
PlayerPollSettles(got) ==
    /\ last # NoOp
    /\ last.op = "waitForPlayer"
    /\ last.pc = "poll"
    /\ last' = AfterPlayerPoll(last, got, now)
    /\ UNCHANGED <<client, cfg, env, now, cache, calls, started, origin>>

(* waitForPlayerCount after its poll has settled to got at time t: *)
(* if (currentCount >= count) return, else sleep                   *)
AfterCountPoll(w, got, t) ==
    LET currentCount == OnlineCountResult(got)
    IN  IF currentCount.kind # "value"
        THEN [w EXCEPT !.pc = "done", !.got = got, !.out = currentCount, !.endAt = t]
        ELSE IF Val(currentCount.value) >= w.count
        THEN [w EXCEPT !.pc = "done", !.got = got, !.out = ReturnedVoid, !.endAt = t]
        ELSE [w EXCEPT !.pc = "sleep", !.got = got, !.wakeAt = t + CountPollMs]

(* The poll of waitForPlayerCount settles *)
CountPollSettles(got) ==
    /\ last # NoOp
    /\ last.op = "waitForPlayerCount"
    /\ last.pc = "poll"
    /\ last' = AfterCountPoll(last, got, now)
    /\ UNCHANGED <<client, cfg, env, now, cache, calls, started, origin>>

(* The timer between two polls fires and the loop tests its condition again *)
WaitWake ==
    /\ last # NoOp
    /\ last.pc = "sleep"
    /\ now >= last.wakeAt
    /\ last' = LoopTest(last, now)
    /\ UNCHANGED <<client, cfg, env, now, cache, calls, started, origin>>

(* Time passes while a helper waits *)
WaitTick ==
    /\ last # NoOp
    /\ last.pc \in {"poll", "sleep"}
    /\ now + TickMs <= MaxTicks * TickMs
    /\ now' = now + TickMs
    /\ UNCHANGED <<client, last, cfg, env, cache, calls, started, origin>>

NextWait ==
    \/ \E nameOrId \in WaitQueries, timeoutMs \in WaitTimeouts :
          WaitStart("waitForPlayer", nameOrId, 0, timeoutMs)
    \/ \E count \in WaitCounts, timeoutMs \in WaitTimeouts :
          WaitStart("waitForPlayerCount", <<>>, count, timeoutMs)
    \/ \E got \in WaitPlayersOutcomes : PlayerPollSettles(got)
    \/ \E got \in WaitStatusOutcomes : CountPollSettles(got)
    \/ WaitWake
    \/ WaitTick
    \/ HelperReturn

(* SpecWait: one wait after the other, each poll settling to any outcome of *)
(* its endpoint method after any time                                       *)
SpecWait == InitHelpers /\ [][NextWait]_vars

(* The polls of the wait helpers as calls of the client.  The data of a    *)
(* response read as a player list and as a server status.                  *)
PolledPlayers(d) == IF d = "d1" THEN <<Alice>> ELSE <<Alice, Bob>>

PolledStatus(d) == [CurrentPlayers |-> IF d = "d1" THEN 1 ELSE 2, MaxPlayers |-> 2]

(* findPlayer calls this.client.getPlayers(), getOnlineCount calls *)
(* this.client.getServerStatus(): no options either way            *)
PollEndpoint(op) == IF op = "waitForPlayer" THEN "getPlayers" ELSE "getServerStatus"

(* What the helper receives from the finished call c of endpoint method ep *)
PollOutcome(c) ==
    IF c.result.kind = "error" THEN Raised(c.result.code)
    ELSE IF c.result.data = Null THEN NullEnvelope
    ELSE IF c.ep = "getPlayers" THEN Envelope(PolledPlayers(c.result.data))
    ELSE Envelope(PolledStatus(c.result.data))

(* Variant: the poll asks for a fresh answer, { cache: false } *)
PollIssue_Fresh ==
    /\ last # NoOp
    /\ last.pc = "poll"
    /\ calls[1].pc = "idle"
    /\ StartCall(1, PollEndpoint(last.op), [cache |-> Some(FALSE), cacheMaxAge |-> None])

(* The poll of a wait helper calls its endpoint method *)
PollIssue ==
    /\ last # NoOp
    /\ last.pc = "poll"
    /\ calls[1].pc = "idle"
    /\ StartCall(1, PollEndpoint(last.op), NoOptions)

(* The endpoint method settles and the helper goes on with its outcome *)
PollReturns ==
    LET c   == calls[1]
        got == PollOutcome(c)
    IN  /\ last # NoOp
        /\ last.pc = "poll"
        /\ c.pc = "done"
        /\ last' = IF last.op = "waitForPlayer"
                   THEN AfterPlayerPoll(last, got, now)
                   ELSE AfterCountPoll(last, got, now)
        /\ calls' = [calls EXCEPT ![1] = IdleCall]
        /\ UNCHANGED <<client, cfg, env, now, cache, started, origin>>

PollTimeouts == {TickMs + 1, 2 * TickMs + 1}

NextPoll ==
    \/ \E nameOrId \in WaitQueries, timeoutMs \in PollTimeouts :
          WaitStart("waitForPlayer", nameOrId, 0, timeoutMs)
    \/ \E timeoutMs \in PollTimeouts :
          WaitStart("waitForPlayerCount", <<>>, 2, timeoutMs)
    \/ PollIssue
    \/ Probe(1)
    \/ \E r \in OkResponses : RespondOk(1, r)
    \/ \E r \in env.errors : RespondError(1, r)
    \/ Wake(1)
    \/ PollReturns
    \/ WaitWake
    \/ WaitTick
    \/ HelperReturn
    \/ ClearCache
    \/ \E key \in Paths : Expire(key)

PollEnvs ==
    [scope : {{"getPlayers", "getServerStatus"}}, width : {1},
     options : {{NoOptions, [cache |-> Some(FALSE), cacheMaxAge |-> None]}},
     errors : {FewErrors}]

(* SpecPoll: one wait after the other on a client with or without a cache, *)
(* each poll a call of getPlayers or getServerStatus that the server       *)
(* answers with any response, the cache cleared and its timers firing at   *)
(* any moment                                                              *)
InitPoll == InitWith(PollEnvs)

SpecPoll == InitPoll /\ [][NextPoll]_vars

----------------------------------------------------------------------------
(* The recursive revision of the pipeline: makeRequest calls itself with  *)
(* retryCount + 1 to retry.  It runs in slot 2 beside the loop revision   *)
(* in slot 1, on a cache of its own: the entries under its keys.          *)

(* const cacheKey = `${method}:${endpoint}` *)
RecursiveKey(method, endpoint) == method \o ":" \o endpoint

RecursiveKeys == {RecursiveKey("GET", p) : p \in Paths}

(* has(key) of the cache: whether a read of the key finds an entry *)
CacheHas(c, key, t) == ~Inert /\ c[key] # None /\ Readable(Val(c[key]), t)

(* One invocation of the recursive makeRequest up to its await of fetch: *)
(* the entry of the cache is returned if there is one, else the request  *)
(* is sent                                                               *)
RecursiveEnter(c, kache, config, t) ==
    LET key == RecursiveKey(Method(c.ep), Path(c.ep))
    IN  IF c.shouldCache /\ config.cacheEnabled /\ CacheHas(kache, key, t)
        THEN [c EXCEPT !.pc = "done", !.result = OkResult(CacheGet(kache, key, t)),
                       !.probed = TRUE]
        ELSE [c EXCEPT !.pc = "fetch", !.requests = c.requests + 1,
                       !.sent = c.sent \cup {Request(c, client.headers)},
                       !.probed = c.shouldCache]

(* Variant: only the field code of the error body is looked at *)
RecursiveRetries_CodeOnly(body, retryCount) ==
    body.code = Some(RATE_LIMITED) /\ retryCount < MAX_RETRIES

(* errorBody && (errorBody?.code === 4001 || errorBody?.errorCode === 4001) *)
(* && retryCount < MAX_RETRIES                                              *)
RecursiveRetries(body, retryCount) ==
    (body.code = Some(RATE_LIMITED) \/ body.errorCode = Some(RATE_LIMITED))
        /\ retryCount < MAX_RETRIES

(* The responses of the server to the call under way are numbered: last *)
(* holds how many the server has produced and the latest of them        *)
Served(n, r) == [op |-> "served", n |-> n, r |-> r]

(* The number of responses call c has received *)
Received(c) == c.requests - (IF c.pc = "fetch" THEN 1 ELSE 0)

(* The caller makes the same call, without options, on a client of each *)
(* revision                                                             *)
StartBoth(ep) ==
    LET loop == [NewCall(ep, NoOptions) EXCEPT
                    !.seen = IF NewCall(ep, NoOptions).shouldCache
                             THEN None ELSE origin[Path(ep)],
                    !.seenAt = now]
        rec  == [IdleCall EXCEPT !.ep = ep, !.body = BodyOf(ep, started),
                                 !.shouldCache = (ep \in DefaultCached /\ Method(ep) = "GET")]
    IN  /\ client.state = "ready"
        /\ \A s \in Slots : calls[s].pc = "idle"
        /\ started < MaxCalls
        /\ ep \in env.scope
        /\ started' = started + 1
        /\ calls' = [calls EXCEPT ![1] = loop, ![2] = RecursiveEnter(rec, cache, cfg, now)]
        /\ last' = Served(0, NoResponse)
        /\ UNCHANGED <<client, cfg, env, now, cache, origin>>

(* The recursive revision receives the next response of the server: lines *)
(* 120-153 of the revision                                                *)
RecursiveRespond(r) ==
    LET c    == calls[2]
        key  == RecursiveKey(Method(c.ep), Path(c.ep))
        body == ParseErrorBody(r)
        ms   == RetryWaitMs(body)
        data == ParseResponseData(r)
    IN  /\ c.pc = "fetch"
        /\ last.op = "served"
        /\ last.n = Received(c)
        /\ last' = Served(last.n + 1, r)
        /\ cache' = IF r.ok /\ c.shouldCache /\ cfg.cacheEnabled
                    THEN CacheSet(cache, key, data, None, now, cfg)
                    ELSE cache
        /\ calls' = [calls EXCEPT ![2] =
              IF r.ok
              THEN [c EXCEPT !.pc = "done", !.result = OkResult(data), !.lastResp = r]
              ELSE IF RecursiveRetries(body, c.retryCount)
              THEN IF ms > 0
                   THEN [c EXCEPT !.pc = "wait", !.wakeAt = now + ms,
                                  !.lastWait = [from |-> now, secs |-> Val(body.retry_after),
                                                until |-> 0]]
                   ELSE RecursiveEnter([c EXCEPT !.retryCount = c.retryCount + 1],
                                       cache, cfg, now)
              ELSE [c EXCEPT !.pc = "done", !.result = ErrorResult(body), !.lastResp = r]]
        /\ UNCHANGED <<client, cfg, env, now, started, origin>>

(* The retry-after timer of the recursive revision fires: makeRequest is *)
(* called with retryCount + 1                                            *)
RecursiveWake ==
    LET c == calls[2]
    IN  /\ c.pc = "wait"
        /\ now >= c.wakeAt
        /\ calls' = [calls EXCEPT ![2] =
              RecursiveEnter([c EXCEPT !.retryCount = c.retryCount + 1, !.wakeAt = 0,
                                       !.waitedMs = c.waitedMs + (c.wakeAt - c.lastWait.from),
                                       !.lastWait = [c.lastWait EXCEPT !.until = now]],
                             cache, cfg, now)]
        /\ UNCHANGED <<client, last, cfg, env, now, cache, started, origin>>

(* The loop revision receives the response of the server that the        *)
(* recursive revision received at the same position of the call, or any  *)
(* response once the recursive revision has settled with fewer requests  *)
LoopResponse(r) ==
    /\ last.op = "served"
    /\ \/ last.n = Received(calls[1]) + 1 /\ r = last.r
       \/ last.n <= Received(calls[1]) /\ calls[2].pc = "done"

(* The caller takes the outcome of both calls *)
CollectBoth ==
    /\ \A s \in Slots : calls[s].pc = "done"
    /\ calls' = [s \in Slots |-> IdleCall]
    /\ last' = NoOp
    /\ UNCHANGED <<client, cfg, env, now, cache, started, origin>>

(* Time passes between two calls, while both revisions wait for the same *)
(* response, and while both wait out a retry-after                       *)
RevisionsTick ==
    /\ calls[1].pc = calls[2].pc
    /\ calls[1].pc \in {"idle", "fetch", "wait"}
    /\ Received(calls[1]) = Received(calls[2])
    /\ now + TickMs <= MaxTicks * TickMs
    /\ now' = now + TickMs
    /\ UNCHANGED <<client, last, cfg, env, cache, calls, started, origin>>

(* The 2xx responses of the claim: a read is answered with JSON data *)
RevisionResponses(ep) ==
    IF Method(ep) = "GET" THEN {r \in OkResponses : r.json} ELSE OkResponses

NextRevisions ==
    \/ \E ep \in EndpointNames : StartBoth(ep)
    \/ \E r \in RevisionResponses(calls[2].ep) \cup env.errors : RecursiveRespond(r)
    \/ RecursiveWake
    \/ Probe(1)
    \/ \E r \in RevisionResponses(calls[1].ep) : LoopResponse(r) /\ RespondOk(1, r)
    \/ \E r \in env.errors : LoopResponse(r) /\ RespondError(1, r)
    \/ Wake(1)
    \/ CollectBoth
    \/ RevisionsTick

RevisionEnvs ==
    [scope : {{"getPlayers", "getJoinLogs", "executeCommand"}}, width : {2},
     options : {{NoOptions}}, errors : {LiveErrors}]

(* SpecRevisions: calls without options, one after the other, each made on *)
(* a client of the loop revision and on a client of the recursive revision *)
(* constructed with the same options, the server answering both with the   *)
(* same responses                                                          *)
InitRevisions ==
    /\ cfg \in Configs
    /\ env \in RevisionEnvs
    /\ now = 0
    /\ cache = [k \in Paths \cup RecursiveKeys |-> None]
    /\ calls = [s \in Slots |-> IdleCall]
    /\ started = 0
    /\ origin = [p \in Paths |-> None]
    /\ client = MemoryClient
    /\ last = NoOp

SpecRevisions == InitRevisions /\ [][NextRevisions]_vars

----------------------------------------------------------------------------
(* PRCClient.clearCache called at any moment between the steps of the calls *)
ClearCacheCall ==
    LET clears == cfg.cacheEnabled /\ ~Inert
    IN  /\ Accessible
        /\ cache' = ClearCacheResult(cfg, cache)
        /\ origin' = IF clears THEN [p \in Paths |-> None] ELSE origin
        /\ client' = IF clears THEN [client EXCEPT !.cleared = TRUE] ELSE client
        /\ last' = [op |-> "clearCache", out |-> "void"]
        /\ UNCHANGED <<cfg, env, now, calls, started>>

(* The options of a client constructed with cache: false *)
DisabledOptions ==
    {o \in PRCClientOptions : o.cache = Some(FALSE) /\ o.serverKey = Some("server-key")
                                /\ o.globalKey = None}

DisabledEnvs ==
    [scope : {{"getPlayers", "getJoinLogs", "executeCommand"}}, width : {1},
     options : {MethodOptions}, errors : {FewErrors}]

NextDisabled ==
    \/ \E ep \in EndpointNames : \E opts \in OptionsOf(ep) : last = NoOp /\ StartCall(1, ep, opts)
    \/ Probe(1)
    \/ \E r \in OkResponses : RespondOk(1, r)
    \/ \E r \in env.errors : RespondError(1, r)
    \/ Wake(1)
    \/ Collect(1)
    \/ Tick
    \/ ClearCacheCall
    \/ GetCacheSize
    \/ \E key \in Paths : GetCacheEntry(key)
    \/ GetCacheKeys
    \/ Return

(* SpecDisabled: new PRCClient({ serverKey, cache: false, ... }), then calls *)
(* with any per-call options, one after the other, and the cache methods of *)
(* the client between them                                                  *)
InitDisabled ==
    /\ env \in DisabledEnvs
    /\ \E o \in DisabledOptions : cfg = ConfigOf(o) /\ client = ClientOf(o, TRUE)
    /\ now = 0
    /\ cache = EmptyCache
    /\ calls = [s \in Slots |-> IdleCall]
    /\ started = 0
    /\ origin = [p \in Paths |-> None]
    /\ last = NoOp

SpecDisabled == InitDisabled /\ [][NextDisabled]_vars

----------------------------------------------------------------------------
(* Properties *)

(* A write-through to a path is fresh at time t while less than its max-age *)
(* has passed since it was made: the entry it wrote is then still stored.   *)
Fresh(o, t) == t - o.at < o.maxAge

(* The call has passed line 183 and has not yet had a response *)
Probing(c) == c.pc \notin {"idle", "probe"} /\ c.seen # None

ServedFromCache(c, data) ==
    c.pc = "done" /\ c.result = OkResult(data) /\ c.requests = 0

(* C1, as stated: on a client with a cache, a call to a default-cached     *)
(* endpoint that does not pass cache: false and is made while the last     *)
(* write-through to its path is fresh and has not been cleared returns the *)
(* data that write-through's call returned and sends no request.           *)
C1_Original ==
    \A s \in Slots :
        LET c == calls[s]
        IN  (/\ cfg.cacheEnabled
             /\ c.ep \in DefaultCached
             /\ c.opts.cache # Some(FALSE)
             /\ Probing(c)
             /\ Fresh(Val(c.seen), c.seenAt))
            => ServedFromCache(c, Val(c.seen).data)

(* C1, amended: the same, when the data of that write-through is not null  *)
(* (a stored null reads as a miss and the call goes to the network).       *)
C1_Amended ==
    \A s \in Slots :
        LET c == calls[s]
        IN  (/\ cfg.cacheEnabled
             /\ c.ep \in DefaultCached
             /\ c.opts.cache # Some(FALSE)
             /\ Probing(c)
             /\ Fresh(Val(c.seen), c.seenAt)
             /\ Val(c.seen).data # Null)
            => ServedFromCache(c, Val(c.seen).data)

(* A default-cached call served, after time has passed, the data an earlier call wrote *)
C1_Witness ==
    \E s \in Slots :
        LET c == calls[s]
        IN  /\ c.ep \in DefaultCached
            /\ c.pc = "done"
            /\ c.seen # None
            /\ Val(c.seen).data \in Data
            /\ c.seenAt > Val(c.seen).at
            /\ ServedFromCache(c, Val(c.seen).data)

----------------------------------------------------------------------------
(* C2: a call that is answered 4001 with retry_after = r > 0 while retries   *)
(* remain waits until r * 1000 ms have passed, has sent no request for that  *)
(* retry while it waits, then sends the request again; every request after   *)
(* the first has consumed exactly one retry slot, and a call that returns    *)
(* returns the data of the last response.                                    *)
C2_WaitThenRetry ==
    \A s \in Slots :
        LET c == calls[s]
        IN  /\ c.pc = "wait" =>
                /\ c.lastWait.secs > 0
                /\ c.wakeAt = c.lastWait.from + c.lastWait.secs * MsPerSecond
                /\ now >= c.lastWait.from
                /\ c.retryCount < MAX_RETRIES
                /\ c.requests = c.retryCount + 1
            /\ (c.pc = "fetch" /\ c.lastWait # NoWait) =>
                /\ c.lastWait.until >= c.lastWait.from + c.lastWait.secs * MsPerSecond
                /\ c.requests = c.retryCount + 1
            /\ (c.pc = "done" /\ c.result.kind = "ok" /\ c.requests > 0) =>
                /\ c.lastResp \in OkResponses
                /\ c.result.data = (IF c.lastResp.json THEN c.lastResp.data ELSE Null)
                /\ c.requests = c.retryCount + 1

(* A call waited one second after a 4001, retried once and returned *)
C2_Witness ==
    \E s \in Slots :
        LET c == calls[s]
        IN  /\ c.pc = "done"
            /\ c.result.kind = "ok"
            /\ c.result.data \in Data
            /\ c.retryCount = 1
            /\ c.requests = 2
            /\ c.waitedMs = MsPerSecond

----------------------------------------------------------------------------
(* The call raised on a response the pipeline treats as rate-limited *)
RaisedRateLimited(c) ==
    /\ c.pc = "done"
    /\ c.result.kind = "error"
    /\ IsRateLimitedBody(ParseErrorBody(c.lastResp))

(* The call raised on a response whose body carries code 4001 *)
Raised4001(c) == RaisedRateLimited(c) /\ ParseErrorBody(c.lastResp).code = Some(RATE_LIMITED)

(* C3, as stated: a call whose every attempt is answered 4001 raises on the *)
(* third 4001 response, having sent three requests.                         *)
C3_Original ==
    \A s \in Slots : Raised4001(calls[s]) => calls[s].requests = 3

(* C3, amended: such a call raises on the fourth 4001 response (the first   *)
(* request and MAX_RETRIES = 3 retries), and sends nothing after it.        *)
C3_Amended ==
    \A s \in Slots :
        LET c == calls[s]
        IN  /\ Raised4001(c) =>
                (c.requests = MAX_RETRIES + 1 /\ c.retryCount = MAX_RETRIES)
            /\ (c.pc \in {"fetch", "wait"} /\ c.retryCount < MAX_RETRIES) =>
                c.requests <= MAX_RETRIES

(* A call raised after four 4001 responses *)
C3_Witness ==
    \E s \in Slots :
        /\ Raised4001(calls[s])
        /\ calls[s].requests = 4
        /\ calls[s].result.code = RATE_LIMITED

----------------------------------------------------------------------------
(* C4: the retry counter of a call never exceeds 3, and a call sends its   *)
(* request again at most 3 times after the first request.                  *)
C4_RetriesBounded ==
    \A s \in Slots :
        /\ calls[s].retryCount <= 3
        /\ calls[s].requests <= 1 + 3

(* A call has used its three retries and its fourth request is in flight *)
C4_Witness ==
    \E s \in Slots :
        /\ calls[s].pc = "fetch"
        /\ calls[s].retryCount = 3
        /\ calls[s].requests = 4

----------------------------------------------------------------------------
(* C5: a call that raises because its rate-limit retries are used up       *)
(* raises an error with isRateLimit = true, whichever field of the body    *)
(* carried the 4001.                                                       *)
C5_Claim ==
    \A s \in Slots :
        (RaisedRateLimited(calls[s]) /\ calls[s].retryCount = MAX_RETRIES)
            => IsRateLimit(calls[s].result)

----------------------------------------------------------------------------
(* C6: a successful call of a log or mod-call endpoint with { cache: true } *)
(* and no cacheMaxAge does not write the cache.                             *)
C6_Claim ==
    \A s \in Slots :
        (/\ calls[s].ep \in LogEndpoints
         /\ calls[s].opts = [cache |-> Some(TRUE), cacheMaxAge |-> None])
            => ~calls[s].wrote

----------------------------------------------------------------------------
(* The call of a log or mod-call endpoint opts in with a max-age m > 0 *)
LogOptIn(c) ==
    /\ c.ep \in LogEndpoints
    /\ c.opts.cache = Some(TRUE)
    /\ c.opts.cacheMaxAge # None
    /\ Val(c.opts.cacheMaxAge) > 0

(* Such a call that returns data from the server has stored it under its path *)
C7_Stores ==
    \A s \in Slots :
        LET c == calls[s]
        IN  (/\ cfg.cacheEnabled
             /\ LogOptIn(c)
             /\ c.pc = "done" /\ c.result.kind = "ok" /\ c.requests > 0)
            => /\ c.wrote
               /\ cache[Path(c.ep)] =
                      Some(Entry(c.result.data, now, Val(c.opts.cacheMaxAge)))

(* C7, as stated: a successful log or mod-call call with { cache: true,     *)
(* cacheMaxAge: m } stores the response under its path, and the same call   *)
(* made less than m ms after it is served from the cache without a request. *)
C7_Original ==
    /\ C7_Stores
    /\ \A s \in Slots :
        LET c == calls[s]
        IN  (/\ cfg.cacheEnabled
             /\ LogOptIn(c)
             /\ Probing(c)
             /\ Val(c.seen).maxAge = Val(c.opts.cacheMaxAge)
             /\ Fresh(Val(c.seen), c.seenAt))
            => ServedFromCache(c, Val(c.seen).data)

(* C7, amended: the second call is served from the cache when the stored   *)
(* data is not null.                                                       *)
C7_Amended ==
    /\ C7_Stores
    /\ \A s \in Slots :
        LET c == calls[s]
        IN  (/\ cfg.cacheEnabled
             /\ LogOptIn(c)
             /\ Probing(c)
             /\ Val(c.seen).maxAge = Val(c.opts.cacheMaxAge)
             /\ Fresh(Val(c.seen), c.seenAt)
             /\ Val(c.seen).data # Null)
            => ServedFromCache(c, Val(c.seen).data)

(* An opted-in log call was served, after time has passed, what an earlier one stored *)
C7_Witness ==
    \E s \in Slots :
        LET c == calls[s]
        IN  /\ LogOptIn(c)
            /\ c.seen # None
            /\ Val(c.seen).maxAge = Val(c.opts.cacheMaxAge)
            /\ Val(c.seen).data \in Data
            /\ c.seenAt > Val(c.seen).at
            /\ ServedFromCache(c, Val(c.seen).data)

----------------------------------------------------------------------------
(* C8: without options the six default-cached endpoints look the cache up  *)
(* and write a response through; the log and mod-call endpoints called     *)
(* without options, with a bare cache: false, or with a cacheMaxAge but no *)
(* cache: true neither look the cache up nor write it.                     *)
C8_Defaults ==
    \A s \in Slots :
        LET c == calls[s]
        IN  /\ (c.ep \in DefaultCached /\ c.opts = NoOptions) =>
                /\ c.shouldCache
                /\ c.pc # "probe" => c.probed
                /\ (c.pc = "done" /\ c.result.kind = "ok" /\ c.requests > 0
                        /\ cfg.cacheEnabled) =>
                    /\ c.wrote
                    /\ cache[Path(c.ep)] =
                           Some(Entry(c.result.data, now, CacheDefaultMaxAge(cfg)))
            /\ (c.ep \in LogEndpoints /\ c.opts.cache # Some(TRUE)) =>
                /\ ~c.shouldCache
                /\ ~c.probed
                /\ ~c.wrote
                /\ c.pc # "probe"
                /\ c.requests >= 1
                /\ c.pc = "done" => c.lastResp # NoResponse

(* A log call that gave only a cacheMaxAge fetched from the server while a *)
(* live entry for its path was stored, and left it there                   *)
C8_Witness ==
    \E s \in Slots :
        LET c == calls[s]
        IN  /\ c.ep \in LogEndpoints
            /\ c.opts = [cache |-> None, cacheMaxAge |-> Some(2 * TickMs)]
            /\ c.pc = "done"
            /\ c.result.kind = "ok"
            /\ cache[Path(c.ep)] # None
            /\ Readable(Val(cache[Path(c.ep)]), now)
            /\ Val(cache[Path(c.ep)]).value \in Data \ {c.result.data}

----------------------------------------------------------------------------
IsCommand(c) == c.ep = "executeCommand"

(* A step of a call of executeCommand: its start, a response, a wake-up *)
CommandStep ==
    \E s \in Slots :
        calls'[s] # calls[s] /\ (IsCommand(calls[s]) \/ IsCommand(calls'[s]))

(* C9: executeCommand never looks the cache up, always sends a request and  *)
(* leaves the cache as it is, whether it returns or raises; no POST call is *)
(* cacheable, whatever the cacheable flag and the override.                 *)
C9_CommandNeverCached ==
    /\ [](\A s \in Slots :
            IsCommand(calls[s]) =>
                /\ ~calls[s].shouldCache
                /\ ~calls[s].probed
                /\ ~calls[s].wrote
                /\ calls[s].pc # "probe"
                /\ calls[s].requests >= 1)
    /\ [](\A cacheable \in BOOLEAN, override \in CacheOpts :
            ~ShouldCache("POST", cacheable, override))
    /\ [][CommandStep => cache' = cache]_vars

(* executeCommand has returned while the cache held an entry *)
C9_Witness ==
    \E s \in Slots :
        /\ IsCommand(calls[s])
        /\ calls[s].pc = "done"
        /\ calls[s].result.kind = "ok"
        /\ cache # EmptyCache

----------------------------------------------------------------------------
IsBypass(c) == c.ep \in DefaultCached /\ c.opts.cache = Some(FALSE)

(* A step of a call that passed cache: false to a default-cached endpoint *)
BypassStep ==
    \E s \in Slots :
        calls'[s] # calls[s] /\ (IsBypass(calls[s]) \/ IsBypass(calls'[s]))

(* A call with cache: false skips the lookup and the write-through *)
C10_Skips ==
    \A s \in Slots :
        IsBypass(calls[s]) =>
            /\ ~calls[s].shouldCache
            /\ ~calls[s].probed
            /\ ~calls[s].wrote
            /\ calls[s].pc # "probe"
            /\ calls[s].requests >= 1

(* C10, as stated: cache: false on a default-cached endpoint holds for that *)
(* call only; the call sends a request even when a live entry is stored,    *)
(* writes nothing, leaves the entry as it was, and the next call without    *)
(* cache: false made while the entry is fresh returns the stored value.     *)
C10_Original ==
    /\ []C10_Skips
    /\ [][BypassStep => cache' = cache]_vars
    /\ [](\A s \in Slots :
            LET c == calls[s]
            IN  (/\ cfg.cacheEnabled
                 /\ c.ep \in DefaultCached
                 /\ c.opts.cache # Some(FALSE)
                 /\ Probing(c)
                 /\ Val(c.seen).bypassed
                 /\ Fresh(Val(c.seen), c.seenAt))
                => ServedFromCache(c, Val(c.seen).data))

(* C10, amended: the next call returns the stored value when it is not null *)
C10_Amended ==
    /\ []C10_Skips
    /\ [][BypassStep => cache' = cache]_vars
    /\ [](\A s \in Slots :
            LET c == calls[s]
            IN  (/\ cfg.cacheEnabled
                 /\ c.ep \in DefaultCached
                 /\ c.opts.cache # Some(FALSE)
                 /\ Probing(c)
                 /\ Val(c.seen).bypassed
                 /\ Fresh(Val(c.seen), c.seenAt)
                 /\ Val(c.seen).data # Null)
                => ServedFromCache(c, Val(c.seen).data))

(* After a cache: false call fetched the path, a default call was served the *)
(* value stored before it                                                    *)
C10_Witness ==
    \E s \in Slots :
        LET c == calls[s]
        IN  /\ c.ep \in DefaultCached
            /\ c.opts = NoOptions
            /\ c.seen # None
            /\ Val(c.seen).bypassed
            /\ Val(c.seen).data \in Data
            /\ ServedFromCache(c, Val(c.seen).data)

----------------------------------------------------------------------------
(* The call raised on the first response it received *)
RaisedAtOnce(c) == c.pc = "done" /\ c.result.kind = "error" /\ c.retryCount = 0

(* C11: a non-2xx response whose body code is not 4001 (1001, 1002, 3002,  *)
(* no code, a body that does not parse) is never followed by a retry: the  *)
(* call raises on it, and when it is the first response of the call one    *)
(* request has been sent and the call has not waited.                      *)
C11_Claim ==
    \A s \in Slots :
        LET c == calls[s]
        IN  /\ ~c.retriedNon4001
            /\ RaisedAtOnce(c) => (c.requests = 1 /\ c.waitedMs = 0)

----------------------------------------------------------------------------
(* The outcome of a call is an envelope with the decoded data or an error, *)
(* and a call that has written the cache has returned what it wrote        *)
C12_Outcome ==
    \A s \in Slots :
        LET c == calls[s]
        IN  /\ c.pc = "done" => c.result.kind \in {"ok", "error"}
            /\ c.pc # "done" => (c.result = NoResult /\ ~c.wrote)
            /\ c.result.kind = "ok" =>
                /\ c.result = OkResult(c.result.data)
                /\ c.result.data \in Data \cup {Null}
                /\ c.requests > 0 =>
                    /\ c.lastResp \in OkResponses
                    /\ c.result.data = (IF c.lastResp.json THEN c.lastResp.data ELSE Null)
            /\ c.result.kind = "error" =>
                /\ c.result.data = "none"
                /\ c.lastResp \in ErrResponses
                /\ ~c.wrote
            /\ c.wrote =>
                /\ c.result.kind = "ok"
                /\ c.requests = c.retryCount + 1
                /\ cache[Path(c.ep)] =
                       Some(Entry(c.result.data, now, WrittenMaxAge(cfg, c.opts)))

(* An entry is stored only by the step in which a call returns the data of *)
(* a 2xx response, under the path of that call                             *)
C12_WriteStep ==
    \A p \in Paths :
        (cache'[p] # cache[p] /\ cache'[p] # None) =>
            \E s \in Slots :
                /\ Path(calls'[s].ep) = p
                /\ calls[s].pc = "fetch" /\ ~calls[s].wrote
                /\ calls'[s].pc = "done" /\ calls'[s].wrote
                /\ calls'[s].result.kind = "ok"

(* A response that is not 2xx, and the end of a wait, leave the cache alone *)
C12_ErrorStep ==
    \A s \in Slots :
        (/\ calls[s].pc \in {"fetch", "wait"}
         /\ calls'[s] # calls[s]
         /\ calls'[s].result.kind # "ok") => cache' = cache

(* The lookup of a call changes the cache only by removing the entry of its *)
(* path, and only when that entry is past its expiry                        *)
C12_ProbeStep ==
    \A s \in Slots :
        (calls[s].pc = "probe" /\ calls'[s] # calls[s] /\ cache' # cache) =>
            LET p == Path(calls[s].ep)
            IN  /\ cache' = [cache EXCEPT ![p] = None]
                /\ ~Readable(Val(cache[p]), now)
                /\ calls'[s].evicted

(* C12, as stated: a call returns an envelope with decoded data or raises,  *)
(* never both; a call that raises leaves the cache exactly as it was; a     *)
(* call writes the cache at most once, only after it decoded a 2xx.         *)
C12_Original ==
    /\ []C12_Outcome
    /\ [][C12_WriteStep /\ C12_ErrorStep]_vars
    /\ [](\A s \in Slots : calls[s].result.kind = "error" => ~calls[s].evicted)

(* C12, amended: a call that raises has written nothing; the one change it *)
(* can have made to the cache is the removal, by its lookup, of the entry  *)
(* of its path when that entry was past its expiry.                        *)
C12_Amended ==
    /\ []C12_Outcome
    /\ [][C12_WriteStep /\ C12_ErrorStep /\ C12_ProbeStep]_vars

(* A call that looked the cache up and was rate-limited once has raised on *)
(* its second response, with an entry stored under its path                *)
C12_Witness ==
    \E s \in Slots :
        LET c == calls[s]
        IN  /\ c.pc = "done"
            /\ c.result.kind = "error"
            /\ c.probed
            /\ c.retryCount = 1
            /\ cache[Path(c.ep)] # None

----------------------------------------------------------------------------
Thrown == last.op = "fromResponse"

(* C13, as stated: code is the code of the body if present, else 0; message *)
(* is the message of the body if present, else "HTTP <status>:              *)
(* <statusText>"; retryAfter is the retry_after of the body if present,     *)
(* else absent; the empty body gives code 0 and the synthesized message.    *)
C13_Original ==
    Thrown =>
        LET b == last.body
            e == last.error
        IN  /\ e.code = (IF b.code # None THEN Val(b.code) ELSE 0)
            /\ e.message = (IF b.message # None THEN Val(b.message)
                            ELSE HttpMessage(last.response))
            /\ e.retryAfter = b.retry_after
            /\ b = EmptyErrorBody =>
                   (e.code = 0 /\ e.message = HttpMessage(last.response))

(* C13, amended: the message of the body is used when it is present and is *)
(* not the empty string; an empty message gives the synthesized one.       *)
C13_Amended ==
    Thrown =>
        LET b == last.body
            e == last.error
        IN  /\ e.code = (IF b.code # None THEN Val(b.code) ELSE 0)
            /\ e.message = (IF b.message # None /\ Val(b.message) # "" THEN Val(b.message)
                            ELSE HttpMessage(last.response))
            /\ e.retryAfter = b.retry_after
            /\ b = EmptyErrorBody =>
                   (e.code = 0 /\ e.message = HttpMessage(last.response))

(* The error of a 500 whose body did not parse *)
C13_Witness ==
    /\ Thrown
    /\ last.body = EmptyErrorBody
    /\ last.response.status = 500
    /\ last.error = [code |-> 0, message |-> "HTTP 500: Internal Server Error",
                     retryAfter |-> None]

----------------------------------------------------------------------------
(* C14: isRateLimit iff code = 4001; isServerOffline iff code = 3002;      *)
(* isAuthError iff code is one of 2000..2004; isRetryable iff code is one  *)
(* of 1001, 1002, 4001, 3002; so isRateLimit or isServerOffline implies    *)
(* isRetryable, and isAuthError and isRetryable are never both true.       *)
C14_Predicates ==
    Thrown =>
        LET e == last.error
        IN  /\ IsRateLimit(e) <=> e.code = 4001
            /\ IsServerOffline(e) <=> e.code = 3002
            /\ IsAuthError(e) <=> e.code \in {2000, 2001, 2002, 2003, 2004}
            /\ IsRetryable(e) <=> e.code \in {1001, 1002, 4001, 3002}
            /\ (IsRateLimit(e) \/ IsServerOffline(e)) => IsRetryable(e)
            /\ ~(IsAuthError(e) /\ IsRetryable(e))
            /\ \A other \in PRCErrorBodies :
                   other.code = last.body.code =>
                       LET o == PRCAPIError(last.response, other)
                       IN  /\ IsRateLimit(o) = IsRateLimit(e)
                           /\ IsServerOffline(o) = IsServerOffline(e)
                           /\ IsAuthError(o) = IsAuthError(e)
                           /\ IsRetryable(o) = IsRetryable(e)

(* The error of a server-offline body: retryable, not a rate limit *)
C14_Witness ==
    /\ Thrown
    /\ last.error.code = 3002
    /\ IsServerOffline(last.error)
    /\ IsRetryable(last.error)
    /\ ~IsRateLimit(last.error)
    /\ ~IsAuthError(last.error)

----------------------------------------------------------------------------
Constructed == last.op = "constructor"

NoCallMade == started = 0 /\ \A s \in Slots : calls[s] = IdleCall

(* C15: the constructor called with neither serverKey nor globalKey throws *)
(* and leaves no client: no cache is created and no request can be sent;   *)
(* called with a serverKey or a globalKey (a non-empty string) it returns  *)
(* a client.                                                               *)
C15_Construction ==
    /\ Constructed =>
          LET o == last.options
          IN  /\ (o.serverKey = None /\ o.globalKey = None) =>
                    (last.out = "Error" /\ client = FailedClient)
              /\ (TruthyString(o.serverKey) \/ TruthyString(o.globalKey)) =>
                    (last.out = "client" /\ client.state = "ready")
              /\ last.out \in {"Error", "client"}
    /\ client.state # "ready" =>
          /\ client.backend = "none"
          /\ cfg = NoConfig
          /\ cache = EmptyCache
          /\ NoCallMade

(* The constructor has thrown on options that name a cache but no key *)
C15_Witness ==
    /\ Constructed
    /\ last.options.serverKey = None
    /\ last.options.globalKey = None
    /\ last.options.redisUrl # None
    /\ last.out = "Error"
    /\ client = FailedClient

----------------------------------------------------------------------------
(* C16: the entry a call has written through has the cacheMaxAge of the    *)
(* call if the call gave one, else the cacheMaxAge the client was          *)
(* constructed with, else 30 000 ms.                                       *)
C16_EffectiveMaxAge ==
    \A s \in Slots :
        LET c == calls[s]
        IN  c.wrote =>
              /\ cache[Path(c.ep)] # None
              /\ Val(cache[Path(c.ep)]).storedAt = now
              /\ Val(cache[Path(c.ep)]).maxAge =
                    (IF c.opts.cacheMaxAge # None THEN Val(c.opts.cacheMaxAge)
                     ELSE IF cfg.cacheMaxAge # None THEN Val(cfg.cacheMaxAge)
                     ELSE 30000)

(* A call has written an entry with its own max-age on a client that was *)
(* constructed with another                                              *)
C16_Witness ==
    \E s \in Slots :
        LET c == calls[s]
        IN  /\ c.wrote
            /\ c.opts.cacheMaxAge # None
            /\ cfg.cacheMaxAge # None
            /\ cfg.cacheMaxAge # c.opts.cacheMaxAge
            /\ Val(cache[Path(c.ep)]).maxAge = Val(c.opts.cacheMaxAge)

----------------------------------------------------------------------------
(* clearCache has run on a cache that held an entry, and no call has       *)
(* written the cache since: client.cleared                                 *)
ClearStep == ~client.cleared /\ client'.cleared

(* The lookup of a call made after clearCache misses: the call sends a request *)
C17_NextCallFetches ==
    \A s \in Slots :
        (calls[s].pc = "probe" /\ calls'[s] # calls[s] /\ client.cleared) =>
            /\ calls'[s].pc = "fetch"
            /\ calls'[s].requests = 1
            /\ calls'[s].result = NoResult

(* C17: after calls have populated the cache, clearCache() followed by     *)
(* getCacheSize() returns 0, and the next call of a cacheable endpoint     *)
(* sends a request.                                                        *)
C17_ClearThenSize ==
    /\ []((last.op = "getCacheSize" /\ client.cleared) => last.out = 0)
    /\ [][ClearStep => (cache # EmptyCache /\ GetCacheSizeResult(cfg, cache') = 0)]_vars
    /\ [][C17_NextCallFetches]_vars

(* After clearCache a call has looked the cache up and sent its request, *)
(* and getCacheSize has returned 0                                       *)
C17_Witness ==
    /\ client.cleared
    /\ last.op = "getCacheSize"
    /\ last.out = 0
    /\ \E s \in Slots :
          calls[s].pc = "fetch" /\ calls[s].probed /\ calls[s].requests = 1

----------------------------------------------------------------------------
(* The get that has just returned, and the last set of its key *)
GotAfterSet == last.op = "get" /\ origin[last.key] # None

(* C18: a get made more than maxAge after the set of its key returns        *)
(* absent, whether the scheduled expiry has removed the entry or not, and   *)
(* leaves no entry under the key; a get that returns a value is made at     *)
(* most maxAge after the set and returns the value that was set.            *)
C18_LazyExpiry ==
    GotAfterSet =>
        LET o     == Val(origin[last.key])
            delay == last.at - o.at
        IN  /\ delay > o.maxAge => (last.out = Null /\ cache[last.key] = None)
            /\ last.out # Null => (delay <= o.maxAge /\ last.out = o.data)
            /\ (last.entry # None /\ delay <= o.maxAge) =>
                   (last.out = o.data /\ cache[last.key] = last.entry)

(* A get found an entry past its expiry that the scheduled expiry had not *)
(* removed yet, returned absent and removed it                            *)
C18_Witness ==
    /\ GotAfterSet
    /\ last.entry # None
    /\ last.at - Val(origin[last.key]).at > Val(origin[last.key]).maxAge
    /\ last.out = Null
    /\ cache[last.key] = None

----------------------------------------------------------------------------
(* C19: getCacheEntry and getCacheKeys called on a client whose cache uses *)
(* the networked backend fail with an error; they do not return null or an *)
(* empty list of keys.                                                     *)
C19_Claim ==
    (last.op \in {"getCacheEntry", "getCacheKeys"} /\ client.backend = "redis")
        => last.threw

----------------------------------------------------------------------------
(* C20: a client constructed with a networked cache whose connection fails *)
(* is a client; while the backend is down no call is served from the cache *)
(* and no call writes it: every call that has passed its lookup has sent   *)
(* a request, and a call that returns returns the decoded data of the 2xx  *)
(* response it received.                                                   *)
C20_InertState ==
    /\ (Constructed /\ ~MissingKeys(last.options)) =>
          (last.out = "client" /\ client.state = "ready")
    /\ Inert =>
          /\ client.state = "ready"
          /\ \A s \in Slots :
                LET c == calls[s]
                IN  /\ ~c.wrote
                    /\ c.pc \notin {"idle", "probe"} => c.requests >= 1
                    /\ (c.pc = "done" /\ c.result.kind = "ok") =>
                          /\ c.lastResp \in OkResponses
                          /\ c.result.data =
                                (IF c.lastResp.json THEN c.lastResp.data ELSE Null)

(* While the backend is down the steps of the calls leave the store alone *)
C20_InertStep ==
    (Inert /\ \E s \in Slots : calls'[s] # calls[s]) => cache' = cache

C20_InertCache == []C20_InertState /\ [][C20_InertStep]_vars

(* After the networked store failed with a live entry in it, a call of   *)
(* that endpoint looked the cache up, fetched, and returned the data of  *)
(* the server, not the stored value                                      *)
C20_Witness ==
    /\ Inert
    /\ \E s \in Slots :
          LET c == calls[s]
          IN  /\ c.pc = "done"
              /\ c.probed
              /\ c.requests = 1
              /\ c.result.kind = "ok"
              /\ c.result.data \in Data
              /\ cache[Path(c.ep)] # None
              /\ Readable(Val(cache[Path(c.ep)]), now)
              /\ Val(cache[Path(c.ep)]).value \in Data \ {c.result.data}

----------------------------------------------------------------------------
(* The entries of the store that another client than `prefix` wrote *)
ForeignKeys(prefix) ==
    {fk \in DOMAIN origin : origin[fk] # None /\ origin[fk] # Some(prefix)}

(* C21: of several clients with distinct key prefixes on one store, no     *)
(* operation of a client (set, get, has, delete, clear, size) reads,       *)
(* overwrites, removes or counts an entry another client wrote.            *)
C21_Claim ==
    /\ []((last.op \in {"get", "has"} /\ last.hit) => last.from = Some(last.by))
    /\ [](last.op = "size" => last.out = last.own)
    /\ [][last' # NoOp => \A fk \in ForeignKeys(last'.by) : cache'[fk] = cache[fk]]_vars

----------------------------------------------------------------------------
(* The steps a call can still take before it returns or raises: a lookup,  *)
(* then for every retry that is left a wait and its end, then the response *)
(* that ends the call                                                      *)
StepsLeft(c) ==
    LET left == IF c.retryCount <= MAX_RETRIES THEN MAX_RETRIES - c.retryCount ELSE 0
    IN  CASE c.pc = "probe" -> 2 * MAX_RETRIES + 2
          [] c.pc = "fetch" -> 2 * left + 1
          [] c.pc = "wait"  -> 2 * left
          [] OTHER          -> 0

(* Every step of a call in makeRequest brings it closer to its end *)
C22_Progress ==
    \A s \in Slots :
        (Active(calls[s]) /\ calls'[s] # calls[s]) =>
            StepsLeft(calls'[s]) < StepsLeft(calls[s])

(* C22: every call returns an envelope or raises an error in the end, when *)
(* every request receives a response, every cache operation completes and  *)
(* every retry_after wait elapses; the retry loop cannot run forever.      *)
C22_Terminates ==
    /\ \A s \in Slots :
          Active(calls[s]) ~>
              (calls[s].pc = "done" /\ calls[s].result.kind \in {"ok", "error"})
    /\ [][C22_Progress]_vars

(* A call has returned data after it used its three retries, each after a *)
(* wait of one second                                                     *)
C22_Witness ==
    \E s \in Slots :
        LET c == calls[s]
        IN  /\ c.pc = "done"
            /\ c.result.kind = "ok"
            /\ c.retryCount = MAX_RETRIES
            /\ c.waitedMs = MAX_RETRIES * MsPerSecond

----------------------------------------------------------------------------
(* C23: a request is sent again after a 4001 response only after the call  *)
(* has waited a positive retry_after; a 4001 response without a positive   *)
(* retry_after is raised, not retried.                                     *)
C23_Claim ==
    \A s \in Slots :
        LET c == calls[s]
        IN  (c.pc = "fetch" /\ c.retryCount > 0 /\ ~c.retriedNon4001) =>
                /\ c.lastWait # NoWait
                /\ c.lastWait.secs > 0
                /\ c.lastWait.until >= c.lastWait.from + c.lastWait.secs * MsPerSecond

----------------------------------------------------------------------------
(* A step of one call leaves the state of every other call as it was *)
C24_OwnState ==
    \A s, t \in Slots :
        (s # t /\ calls'[s] # calls[s]) => calls'[t] = calls[t]

(* What a call has consumed, waited and concluded follows from the        *)
(* responses it received itself                                           *)
C24_OwnBudget ==
    \A s \in Slots :
        LET c == calls[s]
        IN  /\ c.requests > 0 => c.requests = c.retryCount + 1
            /\ c.waitedMs <= c.retryCount * MsPerSecond
            /\ c.pc = "wait" => c.wakeAt = c.lastWait.from + c.lastWait.secs * MsPerSecond
            /\ Raised4001(c) => c.retryCount = MAX_RETRIES
            /\ (c.pc = "done" /\ c.result.kind = "error") =>
                   c.result = ErrorResult(ParseErrorBody(c.lastResp))
            /\ (c.pc = "done" /\ c.result.kind = "ok" /\ c.requests > 0) =>
                   c.result = OkResult(ParseResponseData(c.lastResp))

(* C24: concurrent calls on one client are independent: each has its own   *)
(* retry counter, and under every interleaving the 4001 responses, waits   *)
(* and errors of one call never consume the retry budget of, delay, or     *)
(* change the outcome of another; the calls share the cache and the        *)
(* configuration, which does not change.                                   *)
C24_Independent ==
    /\ []C24_OwnBudget
    /\ [][C24_OwnState /\ cfg' = cfg /\ client' = client]_vars

(* While one call waits after its second 4001, the other has returned on *)
(* its first response                                                    *)
C24_Witness ==
    \E s, t \in Slots :
        /\ calls[s].pc = "wait"
        /\ calls[s].retryCount = 1
        /\ calls[t].pc = "done"
        /\ calls[t].result.kind = "ok"
        /\ calls[t].requests = 1
        /\ calls[t].waitedMs = 0
        /\ now < calls[s].wakeAt

----------------------------------------------------------------------------
(* str contains q when case is ignored: at some offset every character of *)
(* q is the character of str there, up to case                            *)
ContainsIgnoringCase(str, q) ==
    \E off \in 0..Len(str) :
        /\ off + Len(q) <= Len(str)
        /\ \A k \in 1..Len(q) : LowerOf(str[off + k]) = LowerOf(q[k])

----------------------------------------------------------------------------
(* The entry is later than the cutoff, now minus h hours *)
Counted(entry, dateNow, h) ==
    \/ h * 3600 * 1000 > dateNow
    \/ entry.Timestamp * 1000 > dateNow - h * 3600 * 1000

(* Each of the five reads returned its data *)
C26_AllRead ==
    \A r \in ReadsOf(last.reads) : r.kind = "data"

(* C26: getServerStats(h) counts as recent.joins the join-log entries with *)
(* Join true and Timestamp > cutoff, as recent.kills, recent.commands and  *)
(* recent.modCalls the entries with Timestamp > cutoff, as                 *)
(* recent.uniquePlayers the distinct Player values among the counted       *)
(* joins, so uniquePlayers <= joins; it fails when one of its reads fails. *)
C26_ServerStats ==
    last.op = "getServerStats" =>
        LET reads == last.reads
            h     == last.hours
            t     == last.dateNow
            Count(logs) == Cardinality({i \in 1..Len(logs) : Counted(logs[i], t, h)})
            joins  == Val(reads.joinLogs.data)
            joined == {i \in 1..Len(joins) : joins[i].Join /\ Counted(joins[i], t, h)}
        IN  /\ C26_AllRead =>
                /\ last.out.kind = "value"
                /\ LET recent == Val(last.out.value).recent
                   IN  /\ recent.joins = Cardinality(joined)
                       /\ recent.kills = Count(Val(reads.killLogs.data))
                       /\ recent.commands = Count(Val(reads.commandLogs.data))
                       /\ recent.modCalls = Count(Val(reads.modCalls.data))
                       /\ recent.uniquePlayers =
                             Cardinality({joins[i].Player : i \in joined})
                       /\ recent.uniquePlayers <= recent.joins
            /\ (\E r \in ReadsOf(reads) : r.kind = "PRCAPIError") =>
                /\ last.out.kind = "PRCAPIError"
                /\ \E r \in ReadsOf(reads) :
                      r.kind = "PRCAPIError" /\ r.code = last.out.code

(* getServerStats(1) has counted two joins of one player *)
C26_Witness ==
    /\ last.op = "getServerStats"
    /\ last.hours = 1
    /\ last.dateNow = 2 * SecondsPerHour * MsPerSecond
    /\ last.out.kind = "value"
    /\ Val(last.out.value).recent.joins = 2
    /\ Val(last.out.value).recent.uniquePlayers = 1

----------------------------------------------------------------------------
Waiting == last.op \in {"waitForPlayer", "waitForPlayerCount"}

(* What the last poll was given holds what the helper waits for *)
PollFound ==
    /\ last.got.kind = "data"
    /\ IF last.op = "waitForPlayer"
       THEN \E i \in 1..Len(Val(last.got.data)) :
                ContainsIgnoringCase(Val(last.got.data)[i].Player, last.q)
       ELSE Val(last.got.data).CurrentPlayers >= last.count

(* C27: waitForPlayer(q, t) returns the matching player as soon as a poll  *)
(* finds it; when no poll started before t ms have elapsed finds a match   *)
(* it raises a plain Error, not a PRCAPIError; an API error raised by a    *)
(* poll propagates at once and ends the wait.  waitForPlayerCount(c, t)    *)
(* does the same with the condition CurrentPlayers >= c.                   *)
C27_Wait ==
    Waiting =>
        /\ last.pc = "poll" =>
              (last.pollAt >= last.startTime
                  /\ last.pollAt - last.startTime < last.timeoutMs)
        /\ PollFound =>
              /\ last.pc = "done"
              /\ last.out.kind = (IF last.op = "waitForPlayer" THEN "value" ELSE "void")
              /\ last.op = "waitForPlayer" =>
                    /\ ContainsIgnoringCase(Val(last.out.value).Player, last.q)
                    /\ \E i \in 1..Len(Val(last.got.data)) :
                          /\ Val(last.got.data)[i] = Val(last.out.value)
                          /\ \A j \in 1..(i - 1) :
                                ~ContainsIgnoringCase(Val(last.got.data)[j].Player, last.q)
        /\ last.got.kind = "PRCAPIError" =>
              (last.pc = "done" /\ last.out = Threw("PRCAPIError", last.got.code))
        /\ last.pc = "sleep" =>
              (last.got.kind = "data" /\ ~PollFound
                  /\ last.wakeAt > now - MaxTicks * TickMs)
        /\ (last.pc = "done" /\ last.out.kind \in {"value", "void"}) => PollFound
        /\ (last.pc = "done" /\ last.out.kind = "Error") =>
              /\ last.endAt - last.startTime >= last.timeoutMs
              /\ ~PollFound
              /\ last.got.kind \in {"none", "data"}
        /\ last.pc = "done" =>
              last.out.kind \in {"value", "void", "Error", "PRCAPIError", "TypeError"}

(* waitForPlayer has polled twice without a match and raised its Error *)
C27_Witness ==
    /\ last.op = "waitForPlayer"
    /\ last.pc = "done"
    /\ last.polls = 2
    /\ last.out = Threw("Error", UNKNOWN)

----------------------------------------------------------------------------
(* A credential is configured when the option is a non-empty string: the *)
(* test the constructor applies to the two keys                          *)
Configured(key) == key \notin {None, Some("")}

(* What one request of call c carries *)
RequestCarries(c, r) ==
    LET h == r.options.headers
    IN  /\ h.ContentType = Some("application/json")
        /\ h.Accept = Some("*/*")
        /\ h.Authorization # None <=> Configured(client.globalKey)
        /\ h.Authorization # None => h.Authorization = client.globalKey
        /\ h.ServerKey # None <=> Configured(client.serverKey)
        /\ h.ServerKey # None => h.ServerKey = client.serverKey
        /\ h.Authorization # None \/ h.ServerKey # None
        /\ r.options.method = Method(c.ep)
        /\ r.options.body # None <=> (r.options.method # "GET" /\ c.body # None)
        /\ h = client.headers

(* C28: every request carries Content-Type: application/json and Accept:     *)
(* */*, the Authorization header iff a global credential is configured and  *)
(* the Server-Key header iff a server credential is configured (so at least *)
(* one of the two), and a JSON body iff the method is not GET and a body    *)
(* was supplied; the headers are the same for every request of a client,    *)
(* retries included.                                                        *)
C28_Requests ==
    /\ [](\A s \in Slots :
            /\ calls[s].sent # {} <=> calls[s].requests > 0
            /\ Cardinality(calls[s].sent) <= 1
            /\ \A r \in calls[s].sent : RequestCarries(calls[s], r))
    /\ [][client.state = "ready" => client'.headers = client.headers]_vars

(* A client built with an empty server key and a global key has sent a *)
(* command and retried it                                              *)
C28_Witness ==
    /\ client.serverKey = Some("")
    /\ \E s \in Slots :
          /\ calls[s].ep = "executeCommand"
          /\ calls[s].requests = 2
          /\ \E r \in calls[s].sent : r.options.body # None

----------------------------------------------------------------------------
(* Call c has returned the envelope of a 2xx response *)
Decoded(c) == c.pc = "done" /\ c.result.kind = "ok" /\ c.requests > 0

(* C29: on a 2xx response the envelope's data is the parsed body iff the *)
(* content-type of the response indicates JSON, and null otherwise; a    *)
(* command acknowledged without a JSON body returns {data: null} rather  *)
(* than raising.                                                         *)
C29_Decoding ==
    /\ [](\A s \in Slots :
            LET c == calls[s]
            IN  /\ Decoded(c) =>
                      /\ c.lastResp.ok
                      /\ c.lastResp.json => (c.result.data = c.lastResp.data
                                                /\ c.result.data \in Data)
                      /\ ~c.lastResp.json => c.result.data = Null
                /\ (c.pc = "done" /\ c.lastResp.ok) => c.result.kind = "ok")
    /\ [][\A s \in Slots, r \in OkResponses :
            RespondOk(s, r) =>
                /\ calls'[s].pc = "done"
                /\ calls'[s].lastResp = r
                /\ calls'[s].result.kind = "ok"]_vars

(* executeCommand has returned {data: null} for an acknowledgement that *)
(* is not JSON                                                          *)
C29_Witness ==
    \E s \in Slots :
        /\ calls[s].ep = "executeCommand"
        /\ Decoded(calls[s])
        /\ ~calls[s].lastResp.json
        /\ calls[s].lastResp.data = PlainText
        /\ calls[s].result = OkResult(Null)

----------------------------------------------------------------------------
(* The step has sent call c back to the server, at once or after a wait *)
Retried(c, d) ==
    \/ d.pc = "wait"
    \/ d.pc = "fetch" /\ d.retryCount = c.retryCount + 1

(* C30: rate-limit retry applies to both verbs alike: a 4001 response to   *)
(* executeCommand is retried under the rule and the budget of a read, and  *)
(* every retry sends the same {command} body to /server/command again.     *)
C30_PostRetry ==
    /\ [](\A s \in Slots :
            LET c == calls[s]
            IN  c.ep = "executeCommand" =>
                    /\ c.sent # {} <=> c.requests > 0
                    /\ c.requests <= MAX_RETRIES + 1
                    /\ c.retryCount <= MAX_RETRIES
                    /\ c.pc = "fetch" => c.requests = c.retryCount + 1
                    /\ Cardinality(c.sent) <= 1
                    /\ \A r \in c.sent :
                          /\ r.path = "/server/command"
                          /\ r.options.method = "POST"
                          /\ r.options.body =
                                Some("{\"command\":\"" \o Val(c.body).command \o "\"}"))
    /\ [][\A s \in Slots, r \in ErrResponses :
            RespondError(s, r) =>
                /\ Retried(calls[s], calls'[s]) <=>
                      ShouldRetry(ParseErrorBody(r), calls[s].retryCount, MAX_RETRIES)
                /\ (ParseErrorBody(r).code = Some(RATE_LIMITED)
                        /\ calls[s].retryCount < MAX_RETRIES)
                      => Retried(calls[s], calls'[s])]_vars

(* A command has been sent four times: rate-limited three times and retried *)
C30_Witness ==
    \E s \in Slots :
        /\ calls[s].ep = "executeCommand"
        /\ calls[s].requests = MAX_RETRIES + 1
        /\ calls[s].sent # {}
        /\ calls[s].retryCount = MAX_RETRIES
        /\ Val(calls[s].body).command = ":h hello"

----------------------------------------------------------------------------
(* The data a 2xx response decodes to *)
DecodedData(r) == IF r.json THEN r.data ELSE Null

(* In this step call s, a GET of the path `key`, received the 2xx response *)
(* whose decoded data the entry under `key` now holds                      *)
WrittenBy(s, key) ==
    /\ calls[s].pc = "fetch"
    /\ calls'[s].pc = "done"
    /\ Method(calls[s].ep) = "GET"
    /\ Path(calls[s].ep) = key
    /\ calls'[s].lastResp \in OkResponses
    /\ Val(cache'[key]).value = DecodedData(calls'[s].lastResp)
    /\ calls'[s].result = OkResult(DecodedData(calls'[s].lastResp))

(* C31: every cache entry is stored under a key that is an endpoint path   *)
(* alone, and its value is the decoded data of a 2xx GET response this     *)
(* client received for that path; error bodies, POST responses and data of *)
(* other paths are never stored under it.                                  *)
C31_Provenance ==
    /\ [](\A key \in Paths :
            cache[key] # None =>
                /\ \E ep \in EndpointNames : Method(ep) = "GET" /\ Path(ep) = key
                /\ Val(cache[key]).value \in Data \cup {Null}
                /\ origin[key] # None
                /\ Val(origin[key]).data = Val(cache[key]).value)
    /\ [][\A key \in Paths :
            (cache'[key] # cache[key] /\ cache'[key] # None) =>
                \E s \in Slots : WrittenBy(s, key)]_vars

(* The cache holds different data under two paths *)
C31_Witness ==
    /\ cache["/server"] # None
    /\ cache["/server/players"] # None
    /\ Val(cache["/server"]).value # Val(cache["/server/players"]).value
    /\ Val(cache["/server"]).value # Null

----------------------------------------------------------------------------
(* The entry under the path of call c is readable now and holds null *)
LiveNullEntry(c) ==
    /\ cache[Path(c.ep)] # None
    /\ Readable(Val(cache[Path(c.ep)]), now)
    /\ Val(cache[Path(c.ep)]).value = Null

(* C32: a cached null reads as a miss.  A cacheable GET whose 2xx response *)
(* is not JSON writes an entry that holds null, and a later call to the    *)
(* same endpoint that probes the cache while that entry is within its      *)
(* max-age does not return from the cache: it sends a request.             *)
C32_NullIsMiss ==
    [][\A s \in Slots :
          /\ (\E r \in OkResponses : ~r.json /\ RespondOk(s, r) /\ calls[s].shouldCache) =>
                /\ cache'[Path(calls[s].ep)] # None
                /\ Val(cache'[Path(calls[s].ep)]).value = Null
                /\ Val(cache'[Path(calls[s].ep)]).storedAt = now
          /\ (Probe(s) /\ LiveNullEntry(calls[s])) =>
                /\ calls'[s].pc = "fetch"
                /\ calls'[s].requests = 1
                /\ calls'[s].sent # {}
                /\ cache' = cache]_vars

(* A call has probed a live entry that holds null, one tick after it was *)
(* written, and is waiting for the response to its request               *)
C32_Witness ==
    \E s \in Slots :
        /\ calls[s].pc = "fetch"
        /\ calls[s].probed
        /\ calls[s].requests = 1
        /\ LiveNullEntry(calls[s])
        /\ now > Val(cache[Path(calls[s].ep)]).storedAt

----------------------------------------------------------------------------
(* The entry under the path of call c is readable now and holds data *)
LiveEntry(c) ==
    /\ cache[Path(c.ep)] # None
    /\ Readable(Val(cache[Path(c.ep)]), now)
    /\ Val(cache[Path(c.ep)]).value # Null

(* C33: a call looks the cache up at most once, before its first request. *)
(* After a rate-limit wait it sends the request again and does not look   *)
(* the cache up, even if another call has stored the entry for its path   *)
(* during the wait.                                                       *)
C33_ProbeOnce ==
    /\ [](\A s \in Slots :
            LET c == calls[s]
            IN  /\ c.pc = "probe" => (c.requests = 0 /\ c.retryCount = 0 /\ ~c.probed)
                /\ (c.pc = "done" /\ c.result.kind = "ok" /\ c.retryCount > 0) =>
                      /\ c.requests = c.retryCount + 1
                      /\ c.lastResp \in OkResponses
                      /\ c.result.data = (IF c.lastResp.json THEN c.lastResp.data ELSE Null))
    /\ [][\A s \in Slots :
            /\ (calls[s].pc = "wait" /\ calls'[s] # calls[s]) =>
                  /\ calls'[s].pc = "fetch"
                  /\ calls'[s].requests = calls[s].requests + 1
                  /\ calls'[s].probed = calls[s].probed
                  /\ cache' = cache
            /\ calls'[s].pc = "probe" => calls[s].pc \in {"idle", "probe"}
            /\ (calls[s].pc = "probe" /\ calls'[s].pc # "probe") => calls'[s].probed]_vars

(* A call has waited out a rate limit and sent its request again while the *)
(* entry another call stored for its path during the wait is live          *)
C33_Witness ==
    \E s, t \in Slots :
        /\ s # t
        /\ calls[s].pc = "fetch"
        /\ calls[s].retryCount = 1
        /\ calls[s].requests = 2
        /\ LiveEntry(calls[s])
        /\ Val(cache[Path(calls[s].ep)]).storedAt >= calls[s].lastWait.from
        /\ calls[t].ep = calls[s].ep

----------------------------------------------------------------------------
(* Calls s and t are two calls of one cacheable endpoint that have both *)
(* looked the cache up and missed                                       *)
BothMissed(s, t) ==
    /\ s # t
    /\ calls[s].ep = calls[t].ep
    /\ calls[s].shouldCache /\ calls[t].shouldCache
    /\ calls[s].probed /\ calls[t].probed
    /\ calls[s].requests >= 1 /\ calls[t].requests >= 1

(* C34: requests are not coalesced.  Two concurrent calls of one cacheable *)
(* endpoint that both look the cache up before either has written it each *)
(* send a request of their own, and the entry left in the cache is the     *)
(* data of the call whose write-through came last.                         *)
C34_NoCoalescing ==
    /\ [](\A s, t \in Slots :
            BothMissed(s, t) =>
                /\ calls[s].sent # {} /\ calls[t].sent # {}
                /\ \A u \in {s, t} :
                      (calls[u].pc = "done" /\ calls[u].result.kind = "ok") =>
                          (calls[u].lastResp \in OkResponses
                              /\ calls[u].result.data =
                                    (IF calls[u].lastResp.json
                                     THEN calls[u].lastResp.data ELSE Null)))
    /\ [][\A s \in Slots :
            /\ (calls[s].pc = "probe" /\ calls'[s].pc # "probe" /\ ~LiveEntry(calls[s])) =>
                  (calls'[s].pc = "fetch" /\ calls'[s].requests = 1)
            /\ (calls[s].pc = "fetch" /\ calls'[s].pc = "done" /\ calls[s].shouldCache
                    /\ calls'[s].result.kind = "ok") =>
                  /\ cache'[Path(calls[s].ep)] # None
                  /\ Val(cache'[Path(calls[s].ep)]).value = calls'[s].result.data
                  /\ Val(cache'[Path(calls[s].ep)]).storedAt = now]_vars

(* Two calls of getServerStatus both missed and both fetched; the one that *)
(* wrote last has replaced the data the other had stored                   *)
C34_Witness ==
    \E s, t \in Slots :
        /\ BothMissed(s, t)
        /\ calls[s].pc = "done" /\ calls[t].pc = "done"
        /\ calls[s].wrote /\ calls[t].wrote
        /\ calls[s].requests = 1 /\ calls[t].requests = 1
        /\ calls[s].result.data \in Data
        /\ calls[t].result.data \in Data \ {calls[s].result.data}
        /\ Val(cache[Path(calls[s].ep)]).value = calls[s].result.data
        /\ Val(cache[Path(calls[s].ep)]).storedAt > 0

----------------------------------------------------------------------------
(* C35: the cacheMaxAge of a call sets the lifetime of the entry that call *)
(* writes and nothing else.  It plays no part in the cache lookup: a call  *)
(* with cacheMaxAge = m is served a live entry even when the entry is      *)
(* older than m, and leaves the expiry of that entry as it was.            *)
C35_MaxAgeOnWrite ==
    [][\A s \in Slots :
          LET key == Path(calls[s].ep)
          IN  /\ (calls[s].pc = "probe" /\ calls'[s].pc # "probe"
                      /\ cfg.cacheEnabled /\ LiveEntry(calls[s])) =>
                    /\ calls'[s].pc = "done"
                    /\ calls'[s].requests = 0
                    /\ calls'[s].result = OkResult(Val(cache[key]).value)
                    /\ cache' = cache
              /\ (calls[s].pc = "fetch" /\ calls'[s].pc = "done" /\ calls'[s].wrote
                      /\ calls[s].opts.cacheMaxAge # None) =>
                    /\ Val(cache'[key]).maxAge = Val(calls[s].opts.cacheMaxAge)
                    /\ Val(cache'[key]).storedAt = now
                    /\ \A other \in Paths \ {key} : cache'[other] = cache[other]]_vars

(* A call with a cacheMaxAge of one tick was served an entry two ticks old *)
(* whose own max-age is longer                                             *)
C35_Witness ==
    \E s \in Slots :
        LET c == calls[s]
        IN  /\ c.pc = "done"
            /\ c.requests = 0
            /\ c.opts.cacheMaxAge = Some(TickMs)
            /\ cache[Path(c.ep)] # None
            /\ now - Val(cache[Path(c.ep)]).storedAt > TickMs
            /\ Val(cache[Path(c.ep)]).maxAge > TickMs
            /\ c.result = OkResult(Val(cache[Path(c.ep)]).value)

----------------------------------------------------------------------------
(* Every call in flight is the poll of the running wait helper: the endpoint *)
(* method of the helper, called without options                              *)
PollsByDefault ==
    \A s \in Slots :
        calls[s].pc # "idle" =>
            /\ last # NoOp
            /\ calls[s].ep = PollEndpoint(last.op)
            /\ calls[s].opts = NoOptions
            /\ calls[s].shouldCache

(* Call c has settled with the value of the entry under its path, without *)
(* a request                                                              *)
PollServed(c) ==
    /\ c.pc = "done"
    /\ c.requests = 0
    /\ c.sent = {}
    /\ c.result = OkResult(Val(cache[Path(c.ep)]).value)

(* A poll after the first of its wait that was answered from the cache hands *)
(* the helper what the poll before it did                                    *)
SamePollData ==
    (PollReturns /\ cfg.cacheEnabled /\ last.polls > 1
        /\ calls[1].requests = 0 /\ calls[1].result.kind = "ok")
    => PollOutcome(calls[1]) = last.got

(* C36 as stated: on a client with a cache a poll of waitForPlayer or     *)
(* waitForPlayerCount, made without options while an entry for its path   *)
(* is live, sends no request and observes the data of the entry, whatever *)
(* the entry holds.                                                       *)
C36_PollsAnyLiveEntry ==
    /\ []PollsByDefault
    /\ [][(Probe(1) /\ cfg.cacheEnabled
              /\ cache[Path(calls[1].ep)] # None
              /\ Readable(Val(cache[Path(calls[1].ep)]), now))
          => PollServed(calls'[1])]_vars
    /\ [][SamePollData]_vars

(* C36, amended: on a client with a cache a poll of waitForPlayer or       *)
(* waitForPlayerCount is a call of getPlayers or getServerStatus without   *)
(* options; while a live entry holding data other than null exists for its *)
(* path the poll sends no request and observes the data of the entry, the  *)
(* same data as the poll before it; a poll sends a request, and so can     *)
(* observe a change on the server, only when no such entry exists: none    *)
(* was stored, it has expired, it was cleared, or it holds null.           *)
C36_PollsCached ==
    /\ []PollsByDefault
    /\ [][(Probe(1) /\ cfg.cacheEnabled /\ LiveEntry(calls[1]))
          => PollServed(calls'[1])]_vars
    /\ [][(Probe(1) /\ cfg.cacheEnabled /\ calls'[1].requests > 0)
          => ~LiveEntry(calls[1])]_vars
    /\ [][SamePollData]_vars

(* The second poll of a waitForPlayer has been answered from the entry that *)
(* the first poll stored a poll interval earlier                            *)
C36_Witness ==
    /\ cfg.cacheEnabled
    /\ last # NoOp
    /\ last.op = "waitForPlayer"
    /\ last.pc = "poll"
    /\ last.polls = 2
    /\ last.got.kind = "data"
    /\ calls[1].pc = "done"
    /\ calls[1].requests = 0
    /\ LiveEntry(calls[1])
    /\ now >= Val(cache[Path(calls[1].ep)]).storedAt + PlayerPollMs

----------------------------------------------------------------------------
(* C37: for calls made one after the other without options, every 2xx     *)
(* answer to a GET carrying JSON data other than null, and the same        *)
(* responses of the server, the loop revision and the recursive revision   *)
(* send the same number of requests per call (and the same requests), wait *)
(* the same time, and end the call with the same data or the same error    *)
(* code.                                                                   *)
C37_Revisions ==
    (calls[1].pc = "done" /\ calls[2].pc = "done") =>
        /\ calls[1].requests = calls[2].requests
        /\ calls[1].sent = calls[2].sent
        /\ calls[1].retryCount = calls[2].retryCount
        /\ calls[1].waitedMs = calls[2].waitedMs
        /\ calls[1].result = calls[2].result

(* Both revisions have ended a later call of a cached read after a retry *)
(* and a wait of a second                                                *)
C37_Witness ==
    /\ started > 1
    /\ \A s \in Slots :
          /\ calls[s].pc = "done"
          /\ calls[s].shouldCache
          /\ calls[s].result.kind = "ok"
          /\ calls[s].retryCount > 0
          /\ calls[s].waitedMs = MsPerSecond

----------------------------------------------------------------------------
(* What the cache methods return on a client without a cache *)
DisabledAccessors ==
    /\ last.op = "getCacheSize" => last.out = 0
    /\ last.op = "getCacheKeys" => (last.out = {} /\ ~last.threw)
    /\ last.op = "getCacheEntry" => (last.out = Null /\ ~last.threw)

(* C38: on a client constructed with cache: false every endpoint call sends *)
(* a request whatever its per-call options, { cache: true, cacheMaxAge: m } *)
(* included: no call ends without one and nothing is ever stored;           *)
(* clearCache changes nothing, getCacheSize returns 0, getCacheKeys an      *)
(* empty list and getCacheEntry null.                                       *)
C38_CacheDisabled ==
    /\ [](/\ cache = EmptyCache
          /\ \A s \in Slots :
                /\ calls[s].pc \in {"fetch", "wait", "done"} => calls[s].requests >= 1
                /\ calls[s].pc = "done" => ~calls[s].wrote
          /\ DisabledAccessors)
    /\ [][ClearCacheCall => (cache' = cache /\ calls' = calls /\ client' = client)]_vars
    /\ [][\A s \in Slots : Probe(s) =>
             (calls'[s].pc = "fetch" /\ calls'[s].requests = 1)]_vars

(* A second call, getPlayers with { cache: true, cacheMaxAge: 2000 }, has *)
(* looked the cache up and ended with data after one request of its own  *)
C38_Witness ==
    /\ ~cfg.cacheEnabled
    /\ started = 2
    /\ calls[1].pc = "done"
    /\ calls[1].ep = "getPlayers"
    /\ calls[1].opts = [cache |-> Some(TRUE), cacheMaxAge |-> Some(2 * TickMs)]
    /\ calls[1].probed
    /\ calls[1].requests = 1
    /\ calls[1].result.kind = "ok"

----------------------------------------------------------------------------
(* The members of the team among the players getPlayers returned *)
TeamMembers(w) ==
    SelectSeq(Val(w.got.data), LAMBDA p : ToLowerCase(p.Team) = ToLowerCase(w.team))

(* The name in a Player string: what stands before the colon *)
NameOf(p) == SplitFirst(p.Player)

(* w issued one command, a :kick that names exactly the players of `named` *)
OneKickNaming(w, named) ==
    /\ Len(w.commands) = 1
    /\ SubSeq(w.commands[1], 1, Len(KickPrefix)) = KickPrefix
    /\ \A p \in TeamPlayers :
          NameOf(p) # <<>> =>
              (Includes(w.commands[1], NameOf(p)) <=> \E i \in 1..Len(named) : named[i] = p)

(* The fetch of the player list failed: the helper raises, no command *)
KickFetchFails(w) ==
    w.got.kind # "data" => (w.commands = <<>> /\ w.out.kind \in {"PRCAPIError", "TypeError"})

(* What the helper returns when it returns: the Player strings of the members *)
KickReturns(w) ==
    (w.got.kind = "data" /\ w.out.kind = "value") =>
        Val(w.out.value) = [i \in 1..Len(TeamMembers(w)) |-> TeamMembers(w)[i].Player]

====
